---- MODULE Spec2Model ----
(***************************************************************************)
(* A model of the simpleini package: the line-oriented INI parser          *)
(* (parser.go), its helpers (utils.go) and the writer (writer.go).         *)
(*                                                                         *)
(* Text is modelled as sequences of one-character strings, so that the     *)
(* string operations of the code (TrimSpace, ToLower, SplitN, HasPrefix,   *)
(* ParseInt, ...) are computed, not assumed.  Go values are modelled by    *)
(* their reflect view: a type descriptor and a value of that type.         *)
(***************************************************************************)
EXTENDS Integers, Sequences, FiniteSets, TLC

(***************************************************************************)
(* Bounds of the model.                                                    *)
(***************************************************************************)
\* Lines consumed by one top-level Parse, over the input and its includes.
MaxLines == 4

\* Fields of a generated record type (schema scenarios).
MaxFields == 2

\* The number of lines the chain of includes may yield, and the number of
\* nested directories d that hold a file of the chain.
MaxChainLines == 12

MaxDirs == 12

\* The number of levels to which a record type that contains itself is
\* unrolled.
MaxUnroll == 3

(***************************************************************************)
(* Characters and strings.                                                 *)
(***************************************************************************)
Upper == <<"A","B","C","D","E","F","G","H","I","J","K","L","M",
           "N","O","P","Q","R","S","T","U","V","W","X","Y","Z">>

Lower == <<"a","b","c","d","e","f","g","h","i","j","k","l","m",
           "n","o","p","q","r","s","t","u","v","w","x","y","z">>

Digits == <<"0","1","2","3","4","5","6","7","8","9">>

Range(s) == {s[i] : i \in DOMAIN s}

IndexIn(c, s) == CHOOSE i \in DOMAIN s : s[i] = c

\* unicode.IsUpper / IsLetter / IsDigit on the model's alphabet.
IsUpper(c) == c \in Range(Upper)

IsLetter(c) == c \in Range(Upper) \cup Range(Lower)

IsDigit(c) == c \in Range(Digits)

\* unicode.ToLower / ToUpper of one character.
ToLowerChar(c) == IF c \in Range(Upper) THEN Lower[IndexIn(c, Upper)] ELSE c

ToUpperChar(c) == IF c \in Range(Lower) THEN Upper[IndexIn(c, Lower)] ELSE c

\* strings.ToLower
ToLower(s) == [i \in DOMAIN s |-> ToLowerChar(s[i])]

\* strings.EqualFold
EqualFold(s, t) == ToLower(s) = ToLower(t)

\* The white space strings.TrimSpace removes.
IsSpace(c) == c \in {" ", "\t", "\n", "\r"}

\* s[i..j] (1-based, inclusive), empty when j < i: Go's s[i-1:j].
Slice(s, i, j) == IF j < i THEN <<>> ELSE SubSeq(s, i, j)

\* strings.TrimSpace
TrimSpace(s) ==
  LET keep == {i \in DOMAIN s : ~IsSpace(s[i])}
  IN  IF keep = {} THEN <<>>
      ELSE LET lo == CHOOSE i \in keep : \A j \in keep : i <= j
               hi == CHOOSE i \in keep : \A j \in keep : j <= i
           IN  SubSeq(s, lo, hi)

\* strings.HasPrefix / HasSuffix
HasPrefix(s, p) == Len(s) >= Len(p) /\ SubSeq(s, 1, Len(p)) = p

HasSuffix(s, p) == Len(s) >= Len(p) /\ SubSeq(s, Len(s) - Len(p) + 1, Len(s)) = p

\* strings.Index, 1-based; 0 when sep does not occur in s.
Index(s, sep) ==
  LET at == {i \in 1..(Len(s) - Len(sep) + 1) : SubSeq(s, i, i + Len(sep) - 1) = sep}
  IN  IF at = {} THEN 0 ELSE CHOOSE i \in at : \A j \in at : i <= j

\* strings.Contains
Contains(s, sep) == Index(s, sep) > 0

\* strings.SplitN(s, sep, 2) for a non-empty sep.
SplitN2(s, sep) ==
  LET i == Index(s, sep)
  IN  IF i = 0 THEN <<s>>
      ELSE <<Slice(s, 1, i - 1), Slice(s, i + Len(sep), Len(s))>>

\* strings.Split(s, sep) for a one-character sep.
RECURSIVE Split(_, _)
Split(s, c) ==
  LET i == Index(s, <<c>>)
  IN  IF i = 0 THEN <<s>>
      ELSE <<Slice(s, 1, i - 1)>> \o Split(Slice(s, i + 1, Len(s)), c)

\* strings.TrimPrefix
TrimPrefix(s, p) == IF HasPrefix(s, p) THEN Slice(s, Len(p) + 1, Len(s)) ELSE s

(***************************************************************************)
(* utils.go                                                                *)
(***************************************************************************)
RECURSIVE snakeToPascalFrom(_, _, _)
snakeToPascalFrom(s, i, upperNext) ==
  IF i > Len(s) THEN <<>>
  ELSE IF s[i] = "_" THEN snakeToPascalFrom(s, i + 1, TRUE)
  ELSE IF upperNext THEN <<ToUpperChar(s[i])>> \o snakeToPascalFrom(s, i + 1, FALSE)
  ELSE <<s[i]>> \o snakeToPascalFrom(s, i + 1, FALSE)

\* snakeToPascal converts a snake_case string to PascalCase.
snakeToPascal(s) == snakeToPascalFrom(s, 1, TRUE)

RECURSIVE pascalToSnakeFrom(_, _)
pascalToSnakeFrom(s, i) ==
  IF i > Len(s) THEN <<>>
  ELSE IF IsUpper(s[i])
       THEN (IF i > 1 THEN <<"_">> ELSE <<>>) \o <<ToLowerChar(s[i])>>
            \o pascalToSnakeFrom(s, i + 1)
       ELSE <<s[i]>> \o pascalToSnakeFrom(s, i + 1)

\* pascalToSnake converts a PascalCase string to snake_case.
pascalToSnake(s) == pascalToSnakeFrom(s, 1)

\* isValidKey: non-empty, only letters, digits and '_'.
isValidKey(s) ==
  /\ s # <<>>
  /\ \A i \in DOMAIN s : IsLetter(s[i]) \/ IsDigit(s[i]) \/ s[i] = "_"

\* isValidSection: non-empty, only letters, digits, '_' and '.'.
isValidSection(s) ==
  /\ s # <<>>
  /\ \A i \in DOMAIN s : IsLetter(s[i]) \/ IsDigit(s[i]) \/ s[i] = "_" \/ s[i] = "."

\* The byte that stands for an invalid UTF-8 sequence in a line.
BadByte == "\\xff"

\* ensureValidUTF8: whether utf8.ValidString holds of the line.
ensureValidUTF8(s) == \A i \in DOMAIN s : s[i] # BadByte

\* The process environment read by os.Getenv: a name that is not set reads
\* as the empty string.
Getenv(name) ==
  IF name = <<"A">> THEN <<"7">>
  ELSE IF name = <<"B">> THEN <<"$","A">>
  ELSE <<>>

\* os: isShellSpecialVar and isAlphaNum.
isShellSpecialVar(c) == c \in {"*", "#", "$", "@", "!", "?", "-"} \/ IsDigit(c)

isAlphaNum(c) == c = "_" \/ IsDigit(c) \/ IsLetter(c)

\* os.getShellName: the name that starts s (the text after a '$') and the
\* number of characters it takes.
getShellName(s) ==
  IF s[1] = "{"
  THEN IF Len(s) > 2 /\ isShellSpecialVar(s[2]) /\ s[3] = "}"
       THEN [name |-> <<s[2]>>, w |-> 3]
       ELSE LET close == {i \in 2..Len(s) : s[i] = "}"}
            IN  IF close = {} THEN [name |-> <<>>, w |-> 1]
                ELSE LET i == CHOOSE k \in close : \A j \in close : k <= j
                     IN  IF i = 2 THEN [name |-> <<>>, w |-> 2]
                         ELSE [name |-> SubSeq(s, 2, i - 1), w |-> i]
  ELSE IF isShellSpecialVar(s[1]) THEN [name |-> <<s[1]>>, w |-> 1]
  ELSE LET stop == {i \in 1..Len(s) : ~isAlphaNum(s[i])}
           n == IF stop = {} THEN Len(s)
                ELSE (CHOOSE k \in stop : \A j \in stop : k <= j) - 1
       IN  [name |-> Slice(s, 1, n), w |-> n]

\* os.Expand at a '$' that has text after it: r is what getShellName found
\* there.  An empty name that took characters is bad syntax and is eaten;
\* an empty name that took none leaves the '$'.
expandName(r) ==
  IF r.name = <<>> /\ r.w > 0 THEN <<>>
  ELSE IF r.name = <<>> THEN <<"$">>
  ELSE Getenv(r.name)

\* os.Expand(s, os.Getenv) from position j on.
RECURSIVE ExpandFrom(_, _)
expandAt(s, j, r) == expandName(r) \o ExpandFrom(s, j + r.w + 1)

ExpandFrom(s, j) ==
  IF j > Len(s) THEN <<>>
  ELSE IF s[j] = "$" /\ j < Len(s)
  THEN expandAt(s, j, getShellName(Slice(s, j + 1, Len(s))))
  ELSE <<s[j]>> \o ExpandFrom(s, j + 1)

\* substituteEnvVars replaces ${NAME} and $NAME by the environment's values.
substituteEnvVars(value) == ExpandFrom(value, 1)

(***************************************************************************)
(* strconv                                                                 *)
(***************************************************************************)
DigitValue(c) == IndexIn(c, Digits) - 1

RECURSIVE DecimalValue(_)
DecimalValue(s) ==
  IF s = <<>> THEN 0
  ELSE 10 * DecimalValue(SubSeq(s, 1, Len(s) - 1)) + DigitValue(s[Len(s)])

RECURSIVE Pow2(_)
Pow2(n) == IF n = 0 THEN 1 ELSE 2 * Pow2(n - 1)

AllDigits(s) == s # <<>> /\ \A i \in DOMAIN s : IsDigit(s[i])

\* The numbers the model reads are short decimal strings: a width of more
\* than 16 bits (Go's int, int64, uint, uint64) holds every one of them, so
\* the range check is computed for the narrow widths only.
IsNarrow(bits) == bits <= 16

\* The result of a conversion: the value returned and whether err is nil.
Parsed(v, ok) == [v |-> v, ok |-> ok]

\* The range check of strconv.ParseInt: a range error returns the nearest
\* bound.
intInRange(n, bits) ==
  IF IsNarrow(bits) /\ n > Pow2(bits - 1) - 1 THEN Parsed(Pow2(bits - 1) - 1, FALSE)
  ELSE IF IsNarrow(bits) /\ n < 0 - Pow2(bits - 1) THEN Parsed(0 - Pow2(bits - 1), FALSE)
  ELSE Parsed(n, TRUE)

\* strconv.ParseInt of the digits `body` after the sign.
intOfDigits(neg, body, bits) ==
  IF ~AllDigits(body) THEN Parsed(0, FALSE)
  ELSE intInRange(IF neg THEN 0 - DecimalValue(body) ELSE DecimalValue(body), bits)

\* strconv.ParseInt(s, 10, bits).  A syntax error returns 0.
ParseInt(s, bits) ==
  intOfDigits(s # <<>> /\ s[1] = "-",
              IF s # <<>> /\ s[1] \in {"+", "-"} THEN Slice(s, 2, Len(s)) ELSE s,
              bits)

\* strconv.ParseUint(s, 10, bits)
ParseUint(s, bits) ==
  IF ~AllDigits(s) THEN Parsed(0, FALSE)
  ELSE IF IsNarrow(bits) /\ DecimalValue(s) > Pow2(bits) - 1
  THEN Parsed(Pow2(bits) - 1, FALSE)
  ELSE Parsed(DecimalValue(s), TRUE)

\* strconv.ParseBool
ParseBool(s) ==
  IF s \in {<<"1">>, <<"t">>, <<"T">>, <<"T","R","U","E">>,
            <<"t","r","u","e">>, <<"T","r","u","e">>}
  THEN Parsed(TRUE, TRUE)
  ELSE IF s \in {<<"0">>, <<"f">>, <<"F">>, <<"F","A","L","S","E">>,
                 <<"f","a","l","s","e">>, <<"F","a","l","s","e">>}
  THEN Parsed(FALSE, TRUE)
  ELSE Parsed(FALSE, FALSE)

(***************************************************************************)
(* reflect: types.  A type is [kind, bits, elem, name, fields]: elem is    *)
(* <<t>> for a pointer to t or a slice of t; name and fields are those of  *)
(* a struct type.  A struct field (reflect.StructField) is                 *)
(* [Name, ini, default, Type, Anonymous], ini and default being the values *)
(* of its `ini` and `default` tags.                                        *)
(***************************************************************************)
Prim(kind, bits) ==
  [kind |-> kind, bits |-> bits, elem |-> <<>>, name |-> "", fields |-> <<>>]

TString == Prim("string", 0)

TBool == Prim("bool", 0)

TInt == Prim("int", 64)

TInt8 == Prim("int8", 8)

TUint == Prim("uint", 64)

TUint8 == Prim("uint8", 8)

SliceOf(t) == [kind |-> "slice", bits |-> 0, elem |-> <<t>>, name |-> "", fields |-> <<>>]

PtrTo(t) == [kind |-> "ptr", bits |-> 0, elem |-> <<t>>, name |-> "", fields |-> <<>>]

StructT(name, fields) ==
  [kind |-> "struct", bits |-> 0, elem |-> <<>>, name |-> name, fields |-> fields]

\* t.Elem()
Elem(t) == t.elem[1]

\* t.NumField(), t.Field(i) with i counted from 1.
NumField(t) == Len(t.fields)

Field(t, i) == t.fields[i]

F(name, tag, def, type) ==
  [Name |-> name, ini |-> tag, default |-> def, Type |-> type, Anonymous |-> FALSE]

Embedded(name, tag, type) ==
  [Name |-> name, ini |-> tag, default |-> <<>>, Type |-> type, Anonymous |-> TRUE]

IsIntKind(k) == k \in {"int", "int8", "int16", "int32", "int64"}

IsUintKind(k) == k \in {"uint", "uint8", "uint16", "uint32", "uint64"}

\* Whether a struct field is exported, so that its Value can be set.
Exported(f) == f.Name # <<>> /\ IsUpper(f.Name[1])

(***************************************************************************)
(* reflect: values.  A struct value is the sequence of its fields' values  *)
(* in declaration order; a pointer is <<>> (nil) or <<v>>; a slice is the  *)
(* sequence of its elements; a string is its characters.                   *)
(***************************************************************************)
RECURSIVE Zero(_)
Zero(t) ==
  IF t.kind = "struct" THEN [i \in 1..NumField(t) |-> Zero(Field(t, i).Type)]
  ELSE IF t.kind = "bool" THEN FALSE
  ELSE IF IsIntKind(t.kind) \/ IsUintKind(t.kind) THEN 0
  ELSE <<>>

\* The value at an index path of a struct value (v.Field(i).Field(j)...);
\* index 1 of a pointer is its pointee.
RECURSIVE GetPath(_, _)
GetPath(v, path) == IF path = <<>> THEN v ELSE GetPath(v[Head(path)], Tail(path))

RECURSIVE SetPath(_, _, _)
SetPath(v, path, x) ==
  IF path = <<>> THEN x
  ELSE [v EXCEPT ![Head(path)] = SetPath(v[Head(path)], Tail(path), x)]

\* The type at an index path of a struct type.
RECURSIVE TypeAt(_, _)
TypeAt(t, path) == IF path = <<>> THEN t ELSE TypeAt(Field(t, Head(path)).Type, Tail(path))

\* The field descriptor at an index path of a struct type.
FieldAt(t, path) ==
  Field(TypeAt(t, SubSeq(path, 1, Len(path) - 1)), path[Len(path)])

\* The index paths of the fields of struct type t at embedding depth d
\* (0: its own fields; 1: those promoted from its embedded records; ...).
RECURSIVE PathsAtDepth(_, _)
PathsAtDepth(t, d) ==
  IF d = 0 THEN {<<i>> : i \in 1..NumField(t)}
  ELSE UNION { {<<i>> \o p : p \in PathsAtDepth(Field(t, i).Type, d - 1)} :
               i \in {j \in 1..NumField(t) :
                        Field(t, j).Anonymous /\ Field(t, j).Type.kind = "struct"} }

\* Embedded records nest at most this deep in the model's types.
EmbedDepth == 1

\* The least element of a non-empty set of numbers.
Least(S) == CHOOSE k \in S : \A j \in S : k <= j

\* The zero Value <<>> unless S holds exactly one path p: then <<p>>.
TheOnly(S) == IF Cardinality(S) = 1 THEN <<CHOOSE p \in S : TRUE>> ELSE <<>>

\* The one path at the shallowest depth that has any, at[d] being the
\* matching paths at depth d: the zero Value when there is no match or
\* several at that depth.
Shallowest(at, depths) == IF depths = {} THEN <<>> ELSE TheOnly(at[Least(depths)])

MatchesByDepth(at) == Shallowest(at, {d \in DOMAIN at : at[d] # {}})

\* The fields of t, own or promoted.
AllFields(t) == {FieldAt(t, p) : p \in UNION {PathsAtDepth(t, d) : d \in 0..EmbedDepth}}

\* reflect's FieldByNameFunc over the fields of t, own or promoted, matching
\* being the fields the match function accepts.
FieldByNameFunc(t, matching) ==
  MatchesByDepth([d \in 0..EmbedDepth |->
                    {p \in PathsAtDepth(t, d) : FieldAt(t, p) \in matching}])

\* v.FieldByName(name)
FieldByName(t, name) == FieldByNameFunc(t, {f \in AllFields(t) : f.Name = name})

(***************************************************************************)
(* Errors.  An error is [line, kind, detail, of]: the line number of an    *)
(* "... at line N" message (0 when the message has none), the message's    *)
(* fixed text, the texts formatted into it, and the type or kind it names. *)
(* An operation returns the set of errors it may return: the empty set is  *)
(* a nil error, and a set of several arises only where the text of the     *)
(* message depends on Go's map iteration order.                            *)
(***************************************************************************)
Err(kind, detail) == [line |-> 0, kind |-> kind, detail |-> detail, of |-> ""]

ErrOf(kind, detail, of) == [line |-> 0, kind |-> kind, detail |-> detail, of |-> of]

\* fmt.Errorf("error at line %d: %w", lineNumber, err)
AtLine(n, e) == [e EXCEPT !.line = n]

DuplicateTag == "duplicate tag name"

PromotedTag == "promoted struct should not have an ini tag"

(***************************************************************************)
(* parser.go: getFieldMap and the field cache.  The cache maps a struct    *)
(* type to its field map; a field map maps a key to a field.  A result is  *)
(* [errs, map, cache].                                                     *)
(***************************************************************************)
EmptyMap == [k \in {} |-> 0]

FieldMapResult(errs, map, cache) == [errs |-> errs, map |-> map, cache |-> cache]

\* The key a field is stored under: its ini tag, else snakeToPascal(Name).
TagName(f) == IF f.ini = <<>> THEN snakeToPascal(f.Name) ELSE f.ini

RECURSIVE getFieldMap(_, _)
RECURSIVE getFieldMapFrom(_, _, _, _)

\* promoteFields without the check that a promoted key is new to the map.
promoteFieldsUnchecked(t, i, fieldMap, emb) ==
  IF emb.errs # {} THEN FieldMapResult(emb.errs, EmptyMap, emb.cache)
  ELSE getFieldMapFrom(t, i + 1, emb.map @@ fieldMap, emb.cache)

\* The branch for an embedded field, emb being what getFieldMap returned
\* for its type: the promoted fields are added unless one is there already.
promoteFields(t, i, fieldMap, emb) ==
  IF emb.errs # {} THEN FieldMapResult(emb.errs, EmptyMap, emb.cache)
  ELSE IF DOMAIN emb.map \cap DOMAIN fieldMap # {}
  THEN FieldMapResult({ErrOf(DuplicateTag, <<k>>, t.name) :
                         k \in DOMAIN emb.map \cap DOMAIN fieldMap},
                      EmptyMap, emb.cache)
  ELSE getFieldMapFrom(t, i + 1, emb.map @@ fieldMap, emb.cache)

\* One iteration of getFieldMap's loop, for field i of t with key tagName.
addField(t, i, fieldMap, cache, field, tagName) ==
  IF tagName \in DOMAIN fieldMap
  THEN FieldMapResult({ErrOf(DuplicateTag, <<tagName>>, t.name)}, EmptyMap, cache)
  ELSE IF ~field.Anonymous
  THEN getFieldMapFrom(t, i + 1, (tagName :> field) @@ fieldMap, cache)
  ELSE IF field.ini # <<>>
  THEN FieldMapResult({Err(PromotedTag, <<field.Name>>)}, EmptyMap, cache)
  ELSE promoteFields(t, i, fieldMap, getFieldMap(field.Type, cache))

\* The loop of getFieldMap from field i on, fieldMap holding the entries
\* made so far; at its end the map is stored in the cache.
getFieldMapFrom(t, i, fieldMap, cache) ==
  IF i > NumField(t) THEN FieldMapResult({}, fieldMap, (t :> fieldMap) @@ cache)
  ELSE addField(t, i, fieldMap, cache, Field(t, i), TagName(Field(t, i)))

\* getFieldMap returns the field map for the given struct type, from the
\* cache when the type is in it.
getFieldMap(t, cache) ==
  IF t \in DOMAIN cache THEN FieldMapResult({}, cache[t], cache)
  ELSE getFieldMapFrom(t, 1, EmptyMap, cache)

(***************************************************************************)
(* parser.go: initializePointer and setFieldValue.  A reflect.Value that   *)
(* refers to a location is modelled by the location's type t and the value *)
(* cur it holds; a result is [errs, v], v being what the location holds    *)
(* afterwards.  canSet is the Value's CanSet().  The model's types have no *)
(* float kind and no encoding.TextUnmarshaler.                             *)
(***************************************************************************)
CannotSet == Err("cannot set unexported field", <<>>)

\* fmt.Errorf("invalid value for field type %s: %s", fieldValue.Kind(), value)
InvalidValue(t, value) == ErrOf("invalid value for field type", <<value>>, t.kind)

\* fmt.Errorf("unsupported field type: %s", fieldValue.Kind())
Unsupported(t) == ErrOf("unsupported field type", <<>>, t.kind)

SetResult(errs, v) == [errs |-> errs, v |-> v]

\* initializePointer: what the location holds afterwards.  A nil pointer is
\* allocated when hasValue.
initializePointer(t, cur, hasValue) ==
  IF t.kind = "ptr" /\ cur = <<>> /\ hasValue THEN <<Zero(Elem(t))>> ELSE cur

\* The Value initializePointer returns: v.Elem() for a pointer (the zero
\* Value when the pointer is nil), else v.  Its type and what it holds:
Pointee(t) == IF t.kind = "ptr" THEN Elem(t) ELSE t

PointeeValue(t, p) == IF t.kind = "ptr" THEN p[1] ELSE p

\* r, the result of an operation on the Value initializePointer returned for
\* a location of type t, as a result for that location.
ThroughPointer(t, r) == IF t.kind = "ptr" THEN SetResult(r.errs, <<r.v>>) ELSE r

\* The index of the first result of rs that carries an error, else 0.
FirstIn(bad) == IF bad = {} THEN 0 ELSE Least(bad)

FirstFailed(rs) == FirstIn({i \in DOMAIN rs : rs[i].errs # {}})

\* The end of the slice branch, rs being the results for the elements: the
\* first error is returned, else fieldValue.Set(slice).
setSlice(cur, rs) ==
  IF FirstFailed(rs) # 0 THEN SetResult(rs[FirstFailed(rs)].errs, cur)
  ELSE SetResult({}, [i \in DOMAIN rs |-> rs[i].v])

\* The end of the conversion switch, r being what strconv returned: the Set
\* call has run before err is looked at, so a failed conversion stores r.v.
converted(t, value, r) ==
  SetResult(IF r.ok THEN {} ELSE {InvalidValue(t, value)}, r.v)

RECURSIVE setFieldValue(_, _, _, _)
\* The loop of the slice branch: the results of setFieldValue for the
\* elements of the new slice, one per line of the value.
setElements(t, lines) ==
  [i \in DOMAIN lines |-> setFieldValue(t, Zero(t), TrimSpace(lines[i]), TRUE)]

\* setFieldValue from its CanSet check on.
setValue(t, cur, value, canSet) ==
  IF ~canSet THEN SetResult({CannotSet}, cur)
  ELSE IF t.kind = "slice"
  THEN setSlice(cur, setElements(Elem(t), Split(value, "\n")))
  ELSE IF IsIntKind(t.kind) THEN converted(t, value, ParseInt(value, t.bits))
  ELSE IF IsUintKind(t.kind) THEN converted(t, value, ParseUint(value, t.bits))
  ELSE IF t.kind = "bool" THEN converted(t, value, ParseBool(value))
  ELSE IF t.kind = "string" THEN SetResult({}, value)
  ELSE SetResult({Unsupported(t)}, cur)

\* setFieldValue after its initializePointer, which left p in the location:
\* the zero Value of a pointer that stayed nil cannot be set.
setInitialized(t, p, value, canSet) ==
  IF t.kind = "ptr" /\ p = <<>> THEN SetResult({CannotSet}, p)
  ELSE ThroughPointer(t, setValue(Pointee(t), PointeeValue(t, p), value, canSet))

\* setFieldValue sets the value of a field based on its type.
setFieldValue(t, cur, value, canSet) ==
  setInitialized(t, initializePointer(t, cur, value # <<>>), value, canSet)

\* The callers' "fieldValue = initializePointer(fieldValue, hasValue)" with
\* setFieldValue(fieldValue, value) after it, p being what initializePointer
\* left in the location.
setPointee(t, p, value, canSet) ==
  IF t.kind = "ptr" /\ p = <<>> THEN SetResult({CannotSet}, p)
  ELSE ThroughPointer(t, setFieldValue(Pointee(t), PointeeValue(t, p), value, canSet))

initializeAndSet(t, cur, hasValue, value, canSet) ==
  setPointee(t, initializePointer(t, cur, hasValue), value, canSet)

(***************************************************************************)
(* parser.go: setStructValue and setConfigValue.  A struct Value inside    *)
(* the target record is modelled by the record's value root and the path   *)
(* to the struct.  A result is [errs, v, cache], v being the record's      *)
(* value afterwards.                                                       *)
(***************************************************************************)
Outcome(errs, v, cache) == [errs |-> errs, v |-> v, cache |-> cache]

NoKey(key) == Err("no matching field found for key", <<key>>)

\* The end of setStructValue: r is what setFieldValue left in the field at
\* loc.
storeAt(root, loc, cache, r) == Outcome(r.errs, SetPath(root, loc, r.v), cache)

\* setStructValue from v.FieldByName(field.Name) on, at being the Value it
\* found (<<>>: the zero Value).
setFieldAt(t, root, path, value, canSet, at, cache) ==
  IF at = <<>> THEN Outcome({CannotSet}, root, cache)
  ELSE storeAt(root, path \o at[1], cache,
               initializeAndSet(FieldAt(t, at[1]).Type, GetPath(root, path \o at[1]),
                                value # <<>>, value, canSet))

\* setStructValue from "Find the field by key" on, fm being what getFieldMap
\* returned.
setStructKey(t, root, path, key, value, fm) ==
  IF fm.errs # {} THEN Outcome(fm.errs, root, fm.cache)
  ELSE IF key \notin DOMAIN fm.map /\ snakeToPascal(key) \notin DOMAIN fm.map
  THEN Outcome({NoKey(key)}, root, fm.cache)
  ELSE setFieldAt(t, root, path, value,
                  Exported(fm.map[IF key \in DOMAIN fm.map THEN key
                                  ELSE snakeToPascal(key)]),
                  FieldByName(t, fm.map[IF key \in DOMAIN fm.map THEN key
                                        ELSE snakeToPascal(key)].Name),
                  fm.cache)

\* setStructValue sets the value of a field in the struct of type t at path.
setStructValue(t, root, path, key, value, cache) ==
  setStructKey(t, root, path, key, value, getFieldMap(t, cache))

NotPointerToStruct == Err("configuration must be a pointer to a struct", <<>>)

\* Whether a config argument of type t is a pointer to a struct.
IsPointerToStruct(t) == t.kind = "ptr" /\ Elem(t).kind = "struct"

\* The function setConfigValue passes to FieldByNameFunc, applied to the
\* field f that bears the name: byName is v.Type().FieldByName(name).
sectionMatch(t, part, f, byName) ==
  /\ byName # <<>>
  /\ \/ EqualFold(FieldAt(t, byName[1]).ini, part)
     \/ EqualFold(snakeToPascal(part), f.Name)

RECURSIVE walkSection(_, _, _, _, _, _, _, _, _)
\* One iteration of setConfigValue's loop from "Initialize the pointer if
\* necessary" on: the field found lies at loc and has type ft, and root
\* holds the initialized pointer.
enterSection(ft, root, loc, section, parts, i, key, value, cache) ==
  IF Pointee(ft).kind # "struct"
  THEN Outcome({Err("field for section is not a struct", <<section>>)}, root, cache)
  ELSE walkSection(Pointee(ft), root, IF ft.kind = "ptr" THEN loc \o <<1>> ELSE loc,
                   section, parts, i + 1, key, value, cache)

\* One iteration of setConfigValue's loop from "If the field is not found"
\* on, at being the Value FieldByNameFunc returned.
findSection(t, root, path, section, parts, i, key, value, cache, at) ==
  IF at = <<>>
  THEN Outcome({Err("no matching field found for section", <<section>>)}, root, cache)
  ELSE enterSection(FieldAt(t, at[1]).Type,
                    SetPath(root, path \o at[1],
                            initializePointer(FieldAt(t, at[1]).Type,
                                              GetPath(root, path \o at[1]), TRUE)),
                    path \o at[1], section, parts, i, key, value, cache)

\* The loop of setConfigValue over the section's parts, from part i on, and
\* the setStructValue after it: the struct reached has type t and lies at
\* path.
walkSection(t, root, path, section, parts, i, key, value, cache) ==
  IF i > Len(parts) THEN setStructValue(t, root, path, key, value, cache)
  ELSE findSection(t, root, path, section, parts, i, key, value, cache,
                   FieldByNameFunc(t, {f \in AllFields(t) :
                     sectionMatch(t, ToLower(parts[i]), f, FieldByName(t, f.Name))}))

\* The result for the struct config points to, as a result for config.
ofConfig(r) == Outcome(r.errs, <<r.v>>, r.cache)

\* setConfigValue sets the value of a field in the config struct.  The
\* config argument is [t, v]: its type and, for a pointer, <<pointee>>.
\* Without a section no part is walked.
setConfigValue(config, section, key, value, cache) ==
  IF ~IsPointerToStruct(config.t) THEN Outcome({NotPointerToStruct}, config.v, cache)
  ELSE ofConfig(walkSection(Elem(config.t), config.v[1], <<>>, section,
                            IF section = <<>> THEN <<>> ELSE Split(section, "."),
                            1, key, value, cache))

(***************************************************************************)
(* parser.go: setDefaultValues.  The loop ranges over a Go map, whose      *)
(* iteration order is not defined, and returns at the first error: the     *)
(* result is the set of outcomes [errs, v, cache] over all orders, v being *)
(* the struct's value afterwards.                                          *)
(***************************************************************************)
\* The orders in which a range over a map with these keys may visit them.
Orders(keys) ==
  {o \in [1..Cardinality(keys) -> keys] : \A i, j \in DOMAIN o : i # j => o[i] # o[j]}

RECURSIVE setDefaultValues(_, _, _)
\* The outcomes of setDefaultValues on the struct of type wt at wloc inside
\* the struct value v, as outcomes for v.
defaultsInside(wt, wloc, v, cache) ==
  {Outcome(o.errs, SetPath(v, wloc, o.v), o.cache) :
     o \in setDefaultValues(wt, GetPath(v, wloc), cache)}

\* The branch for a pointer to a struct, efm being the pointee's field map:
\* the pointer is initialized if any field has a default value.
defaultsOfPointer(wt, wloc, v, efm) ==
  IF efm.errs # {} THEN {Outcome(efm.errs, v, efm.cache)}
  ELSE IF \E k \in DOMAIN efm.map : efm.map[k].default # <<>>
  THEN defaultsInside(Elem(wt), wloc \o <<1>>,
                      SetPath(v, wloc, initializePointer(wt, GetPath(v, wloc), TRUE)),
                      efm.cache)
  ELSE {Outcome({}, v, efm.cache)}

\* The second half of an iteration: "Recursively set default values for
\* nested structs", fieldValue having type wt and lying at wloc.
defaultsOfNested(wt, wloc, v, cache) ==
  IF wt.kind = "struct" THEN defaultsInside(wt, wloc, v, cache)
  ELSE IF wt.kind = "ptr" /\ Elem(wt).kind = "struct"
  THEN defaultsOfPointer(wt, wloc, v, getFieldMap(Elem(wt), cache))
  ELSE {Outcome({}, v, cache)}

\* The first half of an iteration, "if defaultValue != ...": what
\* initializePointer and setFieldValue leave in the field.
setDefault(field, ft, cur) ==
  IF field.default = <<>> THEN SetResult({}, cur)
  ELSE initializeAndSet(ft, cur, TRUE, field.default, Exported(field))

\* An iteration after its first half, which left `set` in the field at
\* index path at: fieldValue is the pointee when a default went through a
\* pointer.
defaultsAfterSet(field, ft, at, st, set) ==
  IF set.errs # {} THEN {Outcome(set.errs, SetPath(st.v, at, set.v), st.cache)}
  ELSE defaultsOfNested(IF field.default # <<>> THEN Pointee(ft) ELSE ft,
                        IF field.default # <<>> /\ ft.kind = "ptr" THEN at \o <<1>>
                        ELSE at,
                        SetPath(st.v, at, set.v), st.cache)

\* An iteration from v.FieldByName(field.Name) on, at being the Value found.
\* The zero Value has kind Invalid and cannot be set.
defaultsAt(t, field, st, at) ==
  IF at = <<>>
  THEN {Outcome(IF field.default # <<>> THEN {CannotSet} ELSE {}, st.v, st.cache)}
  ELSE defaultsAfterSet(field, FieldAt(t, at[1]).Type, at[1], st,
                        setDefault(field, FieldAt(t, at[1]).Type, GetPath(st.v, at[1])))

\* One iteration of the loop, for the field `field` of the struct of type t,
\* from the state st = [errs, v, cache]: the set of states after it.
defaultsOfField(t, field, st) == defaultsAt(t, field, st, FieldByName(t, field.Name))

\* The loop of setDefaultValues in the order `order`, from its i-th field on.
RECURSIVE defaultsLoop(_, _, _, _, _)
defaultsLoop(t, fieldMap, order, i, st) ==
  IF i > Len(order) THEN {st}
  ELSE UNION { IF o.errs # {} THEN {o} ELSE defaultsLoop(t, fieldMap, order, i + 1, o) :
               o \in defaultsOfField(t, fieldMap[order[i]], st) }

\* setDefaultValues from its loop on, fm being what getFieldMap returned.
defaultsOver(t, v, fm) ==
  IF fm.errs # {} THEN {Outcome(fm.errs, v, fm.cache)}
  ELSE UNION { defaultsLoop(t, fm.map, order, 1, Outcome({}, v, fm.cache)) :
               order \in Orders(DOMAIN fm.map) }

\* setDefaultValues sets the default values for all fields in the struct.
setDefaultValues(t, v, cache) == defaultsOver(t, v, getFieldMap(t, cache))

(***************************************************************************)
(* parser.go: the line processor.  The state of one parseReader activation *)
(* (its local variables) is a frame; a parse in progress is                *)
(* ps = [config, frames, includedFiles, fieldCache], frames being the      *)
(* stack of activations, innermost last.                                   *)
(***************************************************************************)
NewFrame(file, depth, errors) ==
  [file |-> file, currentSection |-> <<>>, currentKey |-> <<>>, currentValue |-> <<>>,
   inMultiline |-> FALSE, lineNumber |-> 0, errors |-> errors, depth |-> depth]

\* What processLine leaves behind: the error it returns (errs), its frame's
\* variables and the state it shares.
LineResult(errs, f, v, cache) == [errs |-> errs, frame |-> f, v |-> v, cache |-> cache]

\* The section header branch with the section changed whether or not its
\* name is valid.
setSectionUnchecked(config, f, cache, section) ==
  LineResult(IF ~isValidSection(section)
             THEN {AtLine(f.lineNumber, Err("invalid section name", <<section>>))}
             ELSE {},
             [f EXCEPT !.currentSection = section], config.v, cache)

\* The section header branch of processLine.
setSection(config, f, cache, section) ==
  IF ~isValidSection(section)
  THEN LineResult({AtLine(f.lineNumber, Err("invalid section name", <<section>>))},
                  f, config.v, cache)
  ELSE LineResult({}, [f EXCEPT !.currentSection = section], config.v, cache)

\* The end of the key-value branch, r being what setConfigValue returned.
assigned(f, key, value, r) ==
  LineResult({AtLine(f.lineNumber, e) : e \in r.errs},
             [f EXCEPT !.currentKey = key, !.currentValue = value], r.v, r.cache)

\* The key-value branch of processLine from the isValidKey check on.
assign(config, f, cache, key, value) ==
  IF ~isValidKey(key)
  THEN LineResult({AtLine(f.lineNumber, Err("invalid key name", <<key>>))},
                  f, config.v, cache)
  ELSE assigned(f, key, value,
                setConfigValue(config, f.currentSection, key, value, cache))

\* processContent with the key taken as it is written, not in lower case.
processContentKeyAsWritten(line, config, f, cache, delim) ==
  IF HasPrefix(line, <<"[">>) /\ HasSuffix(line, <<"]">>)
  THEN setSection(config, f, cache, ToLower(Slice(line, 2, Len(line) - 1)))
  ELSE IF ~Contains(line, delim)
  THEN LineResult({AtLine(f.lineNumber, Err("invalid line format", <<line>>))},
                  f, config.v, cache)
  ELSE assign(config, f, cache,
              TrimSpace(SplitN2(line, delim)[1]),
              substituteEnvVars(TrimSpace(SplitN2(line, delim)[2])))

\* processLine from "Check if the line is a section header" on, line being
\* trimmed and neither empty nor a comment.
processContent(line, config, f, cache, delim) ==
  IF HasPrefix(line, <<"[">>) /\ HasSuffix(line, <<"]">>)
  THEN setSection(config, f, cache, ToLower(Slice(line, 2, Len(line) - 1)))
  ELSE IF ~Contains(line, delim)
  THEN LineResult({AtLine(f.lineNumber, Err("invalid line format", <<line>>))},
                  f, config.v, cache)
  ELSE assign(config, f, cache,
              ToLower(TrimSpace(SplitN2(line, delim)[1])),
              substituteEnvVars(TrimSpace(SplitN2(line, delim)[2])))

\* The end of processMultilineValue, r being what setConfigValue returned.
committed(f, r) ==
  LineResult({AtLine(f.lineNumber, e) : e \in r.errs}, f, r.v, r.cache)

\* processMultilineValue processes and sets a multiline value.
processMultilineValue(config, f, cache) ==
  committed(f, setConfigValue(config, f.currentSection, f.currentKey,
                              substituteEnvVars(f.currentValue), cache))

\* processLine from "if len(line) == 0 ..." on, line being trimmed.
processTrimmed(line, config, f, cache, delim) ==
  IF line = <<>> \/ line[1] = ";" \/ line[1] = "#" THEN LineResult({}, f, config.v, cache)
  ELSE processContent(line, config, f, cache, delim)

\* processLine after "Process the previous multiline value", m being what
\* that left (nothing when no multiline value was pending): its error is
\* returned at once, before inMultiline is reset.
afterMultiline(line, config, f, delim, m) ==
  IF m.errs # {} THEN m
  ELSE processTrimmed(TrimSpace(line), [config EXCEPT !.v = m.v],
                      [f EXCEPT !.inMultiline = FALSE], m.cache, delim)

\* processLine processes a single line from the INI file: f is the frame
\* with lineNumber already counted.
processLine(line, config, f, cache, delim) ==
  IF HasPrefix(line, <<" ">>) \/ HasPrefix(line, <<"\t">>)
  THEN LineResult({}, [f EXCEPT !.inMultiline = TRUE,
                                !.currentValue = @ \o <<"\n">> \o TrimSpace(line)],
                  config.v, cache)
  ELSE afterMultiline(line, config, f, delim,
                      IF f.inMultiline THEN processMultilineValue(config, f, cache)
                      ELSE LineResult({}, f, config.v, cache))

(***************************************************************************)
(* path/filepath and the file system, for the names the model uses.        *)
(***************************************************************************)
\* filepath.IsAbs
IsAbs(name) == HasPrefix(name, <<"/">>)

\* filepath.Join(basePath, name), for a basePath that is "" or a clean
\* directory and a clean relative name.
Join(basePath, name) ==
  IF basePath = <<>> \/ basePath = <<".">> THEN name
  ELSE IF basePath = <<"/">> THEN basePath \o name
  ELSE basePath \o <<"/">> \o name

\* filepath.Dir of a clean name: the text before its last slash.
DirBefore(name, slashes) ==
  IF slashes = {} THEN <<".">>
  ELSE IF slashes = {1} THEN <<"/">>
  ELSE SubSeq(name, 1, (CHOOSE k \in slashes : \A j \in slashes : j <= k) - 1)

Dir(name) == DirBefore(name, {i \in DOMAIN name : name[i] = "/"})

\* The file a name denotes to os.Open, the working directory being "/".
Abs(name) == IF IsAbs(name) THEN name ELSE <<"/">> \o name

\* The file "a" in the k-th directory of the chain /d/d/.../d.
RECURSIVE ChainFile(_)
ChainFile(k) == IF k = 0 THEN <<"/", "a">> ELSE <<"/", "d">> \o ChainFile(k - 1)

\* The files os.Open can open: /a, /b, and /d/a, /d/d/a, ... down to MaxDirs
\* directories.
Files == {<<"/", "b">>} \cup {ChainFile(k) : k \in 0..MaxDirs}

s_include == <<"!","i","n","c","l","u","d","e"," ">>

\* The one line of every file of the chain, and of the reader that starts
\* it: an include of d/a, relative to the directory of the including file.
L_includeNext == s_include \o <<"d", "/", "a">>

ChainLines == {L_includeNext}

\* The include depth above which parseFile refuses to parse.
MaxIncludeDepth == 10

(***************************************************************************)
(* parser.go: parseReader, parseFile, handleIncludeDirective.  Each        *)
(* operator maps a parse state ps to the set of states it may leave.       *)
(***************************************************************************)
Top(ps) == ps.frames[Len(ps.frames)]

SetTop(ps, f) == [ps EXCEPT !.frames[Len(ps.frames)] = f]

AppendErrors(f, errs) == [f EXCEPT !.errors = @ \o errs]

\* The error an operation returns, out of the set it may return: <<>> for a
\* nil error, else <<e>>.
Returned(errs) == IF errs = {} THEN {<<>>} ELSE {<<e>> : e \in errs}

\* The head of parseReader: setDefaultValues on the pointee of config, its
\* error appended to the new activation's errors.
enterReader(ps, file, depth) ==
  UNION { { [ps EXCEPT !.config.v = <<o.v>>,
                       !.fieldCache = o.cache,
                       !.frames = @ \o <<NewFrame(file, depth, e)>>] :
              e \in Returned(o.errs) } :
          o \in setDefaultValues(Elem(ps.config.t), ps.config.v[1], ps.fieldCache) }

\* parseFile reads and parses an INI file: the checks before parseReader.
\* An error list it returns goes to the including activation's errors.
parseFile(ps, filename, depth) ==
  IF depth > MaxIncludeDepth
  THEN {SetTop(ps, AppendErrors(Top(ps), <<Err("maximum include depth exceeded", <<>>)>>))}
  ELSE IF filename \in ps.includedFiles
  THEN {SetTop(ps, AppendErrors(Top(ps), <<Err("circular include detected", <<filename>>)>>))}
  ELSE IF Abs(filename) \notin Files
  THEN {[SetTop(ps, AppendErrors(Top(ps), <<Err("failed to open file", <<filename>>)>>))
           EXCEPT !.includedFiles = @ \cup {filename}]}
  ELSE enterReader([ps EXCEPT !.includedFiles = @ \cup {filename}], filename, depth + 1)

\* The base path of an activation: "" for Parse's reader, else the
\* directory of its file.
BasePath(f) == IF f.depth = 0 THEN <<>> ELSE Dir(f.file)

\* handleIncludeDirective for a line that has the "!include " prefix, f
\* being the including activation.
handleIncludeDirective(ps, f, includeFile) ==
  parseFile(SetTop(ps, f),
            IF IsAbs(includeFile) THEN includeFile ELSE Join(BasePath(f), includeFile),
            f.depth)

\* The end of an iteration of parseReader's loop, r being what processLine
\* left: its error is appended to the activation's errors.
processed(ps, r) ==
  { [ps EXCEPT !.config.v = r.v,
               !.fieldCache = r.cache,
               !.frames[Len(ps.frames)] = AppendErrors(r.frame, e)] :
      e \in Returned(r.errs) }

\* An iteration of parseReader's loop after lineNumber++, f being the
\* activation.
scanned(ps, line, delim, f) ==
  IF ~ensureValidUTF8(line)
  THEN {SetTop(ps, AppendErrors(f, <<AtLine(f.lineNumber,
                                            Err("invalid UTF-8 encoding", <<>>))>>))}
  ELSE IF HasPrefix(line, s_include)
  THEN handleIncludeDirective(ps, f, TrimSpace(Slice(line, Len(s_include) + 1, Len(line))))
  ELSE processed(ps, processLine(line, ps.config, f, ps.fieldCache, delim))

\* One iteration of parseReader's loop, scanner.Text() being line.
scanLine(ps, line, delim) ==
  scanned(ps, line, delim, [Top(ps) EXCEPT !.lineNumber = @ + 1])

\* The activations left when the innermost one returns its errors: they go
\* to the including activation's errors (parseReader's "errors =
\* append(errors, includeErrors...)").
popFrame(below, errors) ==
  IF below = <<>> THEN <<>>
  ELSE [below EXCEPT ![Len(below)] = AppendErrors(@, errors)]

\* The return of parseReader: r is what the remaining multiline value left
\* and errors the list returned, nil being <<>>.
returnErrors(ps, errors, r) ==
  [returned |-> errors,
   ps |-> [ps EXCEPT !.config.v = r.v,
                     !.fieldCache = r.cache,
                     !.frames = popFrame(SubSeq(ps.frames, 1, Len(ps.frames) - 1),
                                         errors)]]

\* parseReader from "Process any remaining multiline value" on, r being
\* what processMultilineValue left (nothing when none is pending).
afterLoop(ps, r) ==
  { returnErrors(ps, Top(ps).errors \o e, r) : e \in Returned(r.errs) }

\* The end of parseReader, scanner.Scan() being false: the activation's
\* errors are returned, to the including activation or, from Parse's
\* reader, to the caller (then no activation is left, and `returned` is
\* Parse's result).
endOfInput(ps) ==
  afterLoop(ps, IF Top(ps).inMultiline
                THEN processMultilineValue(ps.config, Top(ps), ps.fieldCache)
                ELSE LineResult({}, Top(ps), ps.config.v, ps.fieldCache))

(***************************************************************************)
(* writer.go.  The text written is a sequence of lines; a result is        *)
(* [errs, out], out being the lines written so far.  The writer w accepts  *)
(* every write.                                                            *)
(***************************************************************************)
WriteResult(errs, out) == [errs |-> errs, out |-> out]

\* strconv's decimal text of a natural number.
RECURSIVE FormatUint(_)
FormatUint(n) ==
  IF n < 10 THEN <<Digits[n + 1]>> ELSE FormatUint(n \div 10) \o <<Digits[(n % 10) + 1]>>

\* fmt.Sprintf("%v", x) for a value x of a supported kind.
Sprint(t, x) ==
  IF t.kind = "string" THEN x
  ELSE IF t.kind = "bool" THEN (IF x THEN <<"t","r","u","e">> ELSE <<"f","a","l","s","e">>)
  ELSE IF x < 0 THEN <<"-">> \o FormatUint(0 - x)
  ELSE FormatUint(x)

\* utils.go: isSupportedType
isSupportedType(kind) ==
  \/ IsIntKind(kind) \/ IsUintKind(kind)
  \/ kind \in {"bool", "float32", "float64", "string"}

\* The tag name writeFields and writeNestedStructs use for a field.
writeTagName(f) == IF f.ini = <<>> THEN pascalToSnake(f.Name) ELSE f.ini

\* The line of a field written with its value, whatever asComments is.
fieldLineAsValue(ft, fv, tagName, asComments, delim) ==
  tagName \o <<" ">> \o delim \o <<" ">>
  \o (IF ft.kind = "ptr" /\ fv = <<>> THEN <<>>
      ELSE Sprint(Pointee(ft), PointeeValue(ft, fv)))

\* writeField from "if section != ..." on: the line for a field of a
\* supported kind.
fieldLine(ft, fv, tagName, asComments, delim) ==
  IF asComments THEN <<";", " ">> \o tagName \o <<" ">> \o delim
  ELSE tagName \o <<" ">> \o delim \o <<" ">>
       \o (IF ft.kind = "ptr" /\ fv = <<>> THEN <<>>
           ELSE Sprint(Pointee(ft), PointeeValue(ft, fv)))

\* writeField writes one field that is not a nested struct.
writeField(ft, fv, tagName, section, asComments, delim, out) ==
  IF Pointee(ft).kind = "struct" THEN WriteResult({}, out)
  ELSE IF ~isSupportedType(Pointee(ft).kind) THEN WriteResult({Unsupported(ft)}, out)
  ELSE WriteResult({}, Append(out,
         fieldLine(ft, fv,
                   IF section # <<>> THEN TrimPrefix(tagName, section \o <<".">>)
                   ELSE tagName,
                   asComments, delim)))

RECURSIVE writeFieldsFrom(_, _, _, _, _, _, _)
\* The loop of writeFields after field i, r being what writing it left.
fieldsAfter(t, v, section, asComments, delim, i, r) ==
  IF r.errs # {} THEN r
  ELSE writeFieldsFrom(t, v, section, asComments, delim, i + 1, r.out)

\* The loop of writeFields from field i on: an embedded struct's fields are
\* written in place.
writeFieldsFrom(t, v, section, asComments, delim, i, out) ==
  IF i > NumField(t) THEN WriteResult({}, out)
  ELSE fieldsAfter(t, v, section, asComments, delim, i,
         IF Field(t, i).Anonymous /\ Field(t, i).Type.kind = "struct"
         THEN writeFieldsFrom(Field(t, i).Type, v[i], section, asComments, delim, 1, out)
         ELSE writeField(Field(t, i).Type, v[i], writeTagName(Field(t, i)), section,
                         asComments, delim, out))

writeFields(t, v, section, asComments, delim, out) ==
  writeFieldsFrom(t, v, section, asComments, delim, 1, out)

\* buildSectionName
buildSectionName(section, tagName) ==
  IF section = <<>> THEN tagName ELSE section \o <<".">> \o tagName

\* writeSectionHeader: "\n[section]\n", with "; " before the bracket for a
\* comment.
writeSectionHeader(section, asComments, out) ==
  out \o << <<>>, (IF asComments THEN <<";", " ">> ELSE <<>>)
                  \o <<"[">> \o section \o <<"]">> >>

RECURSIVE writeStructHelper(_, _, _, _, _, _)
RECURSIVE writeNestedFrom(_, _, _, _, _, _, _)

\* The branches of writeNestedStructs for a nested struct and for a pointer
\* to one: the header, then the struct; an absent struct is written as
\* comments from a new zero value.
writeSection(ft, fv, newSection, asComments, delim, out) ==
  writeStructHelper(Pointee(ft),
                    IF ft.kind = "ptr" /\ fv = <<>> THEN Zero(Elem(ft))
                    ELSE PointeeValue(ft, fv),
                    newSection,
                    asComments \/ (ft.kind = "ptr" /\ fv = <<>>),
                    delim,
                    writeSectionHeader(newSection,
                                       asComments \/ (ft.kind = "ptr" /\ fv = <<>>),
                                       out))

\* One iteration of the loop of writeNestedStructs, for the field `field`
\* holding fv.
writeNested(field, fv, section, asComments, delim, out) ==
  IF \/ field.Type.kind = "struct" /\ ~field.Anonymous
     \/ field.Type.kind = "ptr" /\ Elem(field.Type).kind = "struct"
  THEN writeSection(field.Type, fv, buildSectionName(section, writeTagName(field)),
                    asComments, delim, out)
  ELSE IF field.Anonymous /\ field.Type.kind = "struct"
  THEN writeNestedFrom(field.Type, fv, section, asComments, delim, 1, out)
  ELSE WriteResult({}, out)

\* The loop of writeNestedStructs after field i, r being what it left.
nestedAfter(t, v, section, asComments, delim, i, r) ==
  IF r.errs # {} THEN r
  ELSE writeNestedFrom(t, v, section, asComments, delim, i + 1, r.out)

\* The loop of writeNestedStructs from field i on.
writeNestedFrom(t, v, section, asComments, delim, i, out) ==
  IF i > NumField(t) THEN WriteResult({}, out)
  ELSE nestedAfter(t, v, section, asComments, delim, i,
                   writeNested(Field(t, i), v[i], section, asComments, delim, out))

writeNestedStructs(t, v, section, asComments, delim, out) ==
  writeNestedFrom(t, v, section, asComments, delim, 1, out)

\* writeStructHelper after writeFields, r being what it left.
nestedAfterFields(t, v, section, asComments, delim, r) ==
  IF r.errs # {} THEN r
  ELSE writeNestedStructs(t, v, section, asComments, delim, r.out)

\* The struct's own fields after r, what writing its nested structs left.
fieldsAfterNested(t, v, section, asComments, delim, r) ==
  IF r.errs # {} THEN r
  ELSE writeFields(t, v, section, asComments, delim, r.out)

\* The struct's nested structs first, then its own fields.
writeStructHelperNestedFirst(t, v, section, asComments, delim, out) ==
  fieldsAfterNested(t, v, section, asComments, delim,
                    writeNestedStructs(t, v, section, asComments, delim, out))

\* writeStructHelper: the struct's own fields, then its nested structs.
writeStructHelper(t, v, section, asComments, delim, out) ==
  nestedAfterFields(t, v, section, asComments, delim,
                    writeFields(t, v, section, asComments, delim, out))

\* writeStruct
writeStruct(t, v, section, delim) == writeStructHelper(t, v, section, FALSE, delim, <<>>)

\* Write after it has cleared the field cache: the check of the config
\* argument, then writeStruct.
write(config, delim) ==
  IF ~IsPointerToStruct(config.t) THEN WriteResult({NotPointerToStruct}, <<>>)
  ELSE writeStruct(Elem(config.t), config.v[1], <<>>, delim)

(***************************************************************************)
(* A second input that differs from the first only in the letter case of   *)
(* its section headers and keys.                                           *)
(***************************************************************************)
\* strings.ToUpper
ToUpper(s) == [i \in DOMAIN s |-> ToUpperChar(s[i])]

\* s with every letter that starts a word in upper case.
Title(s) ==
  [i \in DOMAIN s |-> IF i = 1 \/ ~IsLetter(s[IF i = 1 THEN 1 ELSE i - 1])
                      THEN ToUpperChar(s[i]) ELSE s[i]]

\* The line with its section header or key in upper and in title case; a
\* line of another sort as it is.
CaseVariants(line, delim) ==
  IF \/ HasPrefix(line, <<" ">>) \/ HasPrefix(line, <<"\t">>)
     \/ HasPrefix(line, s_include)
     \/ TrimSpace(line) = <<>>
     \/ TrimSpace(line)[1] \in {";", "#"}
  THEN {line}
  ELSE IF HasPrefix(TrimSpace(line), <<"[">>) /\ HasSuffix(TrimSpace(line), <<"]">>)
  THEN {ToUpper(line), Title(line)}
  ELSE IF Contains(line, delim)
  THEN {ToUpper(SplitN2(line, delim)[1]) \o delim \o SplitN2(line, delim)[2],
        Title(SplitN2(line, delim)[1]) \o delim \o SplitN2(line, delim)[2]}
  ELSE {line}

(***************************************************************************)
(* The state.                                                              *)
(***************************************************************************)
VARIABLES
  pc,             \* the call: "idle", "parsing", "done", "panic", "written"
  config,         \* the config argument of Parse or Write: [t, v]
  frames,         \* the parseReader activations, innermost last
  includedFiles,  \* parseFile's includedFiles map, as the set of its keys
  fieldCache,     \* the package's fieldCache
  delimiter,      \* the package's delimiter
  result,         \* the []error Parse returned (<<>> is nil)
  reader,         \* the lines the readers of this Parse may yield
  consumed,       \* history: the lines scanned so far, as [file, line, delim],
                  \* delim being the delimiter processLine found
  twin,           \* the parse of the second input, in step with the first
  output,         \* the lines Write wrote
  writeErr,       \* the error Write returned: <<>> (nil) or <<e>>
  reparsed        \* the Parse of the written text: [config, result]

vars == <<pc, config, frames, includedFiles, fieldCache, delimiter, result,
          reader, consumed, twin, output, writeErr, reparsed>>

\* The parse in progress, as the operators above take it.
Now ==
  [config |-> config, frames |-> frames, includedFiles |-> includedFiles,
   fieldCache |-> fieldCache]

\* The parse of the second input with the result it returned.
Twin(ps, returned) ==
  [config |-> ps.config, frames |-> ps.frames, includedFiles |-> ps.includedFiles,
   fieldCache |-> ps.fieldCache, result |-> returned]

\* A config argument that is a pointer to a zero record of struct type t.
PointerTo(t) == [t |-> PtrTo(t), v |-> <<Zero(t)>>]

NoConfig == [t |-> TString, v |-> <<>>]

\* A config argument of type t: a pointer to a new zero struct, or the zero
\* value of another type.
Arg(t) == IF IsPointerToStruct(t) THEN PointerTo(Elem(t)) ELSE [t |-> t, v |-> Zero(t)]

RECURSIVE ReadFrom(_, _, _)
\* The parse states after the parseReader loop has read lines[i..] from one
\* of `states`, each line under the delimiter that goes with it.
ReadFrom(states, lines, i) ==
  IF i > Len(lines) THEN states
  ELSE ReadFrom(UNION {scanLine(ps, lines[i].line, lines[i].delim) : ps \in states},
                lines, i + 1)

\* What a whole Parse may leave, [returned, ps], for a new record of type t
\* and a reader that yields `lines`, none of which opens a file.
ParseAll(t, lines, cache) ==
  UNION {endOfInput(ps) :
           ps \in ReadFrom(enterReader([config |-> Arg(t), frames |-> <<>>,
                                        includedFiles |-> {}, fieldCache |-> cache],
                                       <<>>, 0),
                           lines, 1)}

Init ==
  /\ pc = "idle"
  /\ config = NoConfig
  /\ frames = <<>>
  /\ includedFiles = {}
  /\ fieldCache = EmptyMap
  /\ delimiter = <<"=">>
  /\ result = <<>>
  /\ reader = {}
  /\ consumed = <<>>
  /\ twin = Twin([config |-> NoConfig, frames |-> <<>>, includedFiles |-> {},
                  fieldCache |-> EmptyMap], <<>>)
  /\ output = <<>>
  /\ writeErr = <<>>
  /\ reparsed = [config |-> NoConfig, result |-> <<>>]

(***************************************************************************)
(* The actions.                                                            *)
(***************************************************************************)
\* Parse(reader, config) for an input [config, lines], config being the type
\* of the argument and lines what a reader may yield, up to the first
\* scanner.Scan(): parseReader with a fresh includedFiles, depth 0.
\* reflect.ValueOf(config).Elem() and the NumField of getFieldMap panic
\* unless config is a pointer to a struct.
Parse(inputs) ==
  /\ pc = "idle"
  /\ \E input \in inputs :
       /\ reader' = input.lines
       /\ IF IsPointerToStruct(input.config)
          THEN \E n \in enterReader([config |-> Arg(input.config), frames |-> <<>>,
                                     includedFiles |-> {}, fieldCache |-> fieldCache],
                                    <<>>, 0) :
                 /\ pc' = "parsing"
                 /\ config' = n.config
                 /\ frames' = n.frames
                 /\ includedFiles' = n.includedFiles
                 /\ fieldCache' = n.fieldCache
                 /\ twin' = Twin(n, <<>>)
          ELSE /\ pc' = "panic"
               /\ config' = Arg(input.config)
               /\ UNCHANGED <<frames, includedFiles, fieldCache, twin>>
  /\ UNCHANGED <<delimiter, result, consumed, output, writeErr, reparsed>>

\* The number of lines the readers of one Parse yield altogether.
LineBudget(lines) == IF lines = ChainLines THEN MaxChainLines ELSE MaxLines

\* One iteration of the innermost parseReader's loop: the scanner yields a
\* line of the reader.
ScanLine ==
  /\ pc = "parsing"
  /\ Len(consumed) < LineBudget(reader)
  /\ \E line \in reader :
       /\ consumed' = Append(consumed, [file |-> Top(Now).file, line |-> line,
                                        delim |-> delimiter])
       /\ \E n \in scanLine(Now, line, delimiter) :
            /\ config' = n.config
            /\ frames' = n.frames
            /\ includedFiles' = n.includedFiles
            /\ fieldCache' = n.fieldCache
       /\ \E variant \in CaseVariants(line, delimiter) :
            twin' \in scanLine(twin, variant, delimiter)
  /\ UNCHANGED <<pc, delimiter, result, reader, output, writeErr, reparsed>>

\* The innermost parseReader's scanner reaches the end of its input.
EndOfInput ==
  /\ pc = "parsing"
  /\ \E n \in endOfInput(Now) :
       /\ config' = n.ps.config
       /\ frames' = n.ps.frames
       /\ includedFiles' = n.ps.includedFiles
       /\ fieldCache' = n.ps.fieldCache
       /\ IF n.ps.frames = <<>>
          THEN pc' = "done" /\ result' = n.returned
          ELSE UNCHANGED <<pc, result>>
  /\ \E m \in endOfInput(twin) :
       twin' = Twin(m.ps, IF m.ps.frames = <<>> THEN m.returned ELSE <<>>)
  /\ UNCHANGED <<delimiter, reader, consumed, output, writeErr, reparsed>>

\* Write(w, config): of the record Parse has filled, or of an argument of
\* a type out of args when nothing was parsed.
Write(args) ==
  /\ pc \in {"idle", "done"}
  /\ \E t \in args :
       /\ config' = IF pc = "done" THEN config ELSE Arg(t)
       /\ \E w \in {write(config', delimiter)} :
            /\ output' = w.out
            /\ writeErr' \in Returned(w.errs)
  /\ fieldCache' = EmptyMap
  /\ pc' = "written"
  /\ UNCHANGED <<frames, includedFiles, delimiter, result, reader, consumed, twin,
                 reparsed>>

RECURSIVE TextLines(_, _)
\* The lines a scanner finds in the text written from line i of out on: a
\* value that holds newlines spreads over several.
TextLines(out, i) ==
  IF i > Len(out) THEN <<>> ELSE Split(out[i], "\n") \o TextLines(out, i + 1)

\* The reader of a text of these lines, each to be read under delim.
ReaderOf(lines, delim) == [i \in DOMAIN lines |-> [line |-> lines[i], delim |-> delim]]

\* Parse(bytes.NewReader(text), fresh) for the text Write has written and a
\* new record of the type written, a pointer type out of `types`, as one
\* step.
Reparse(types) ==
  /\ pc = "written"
  /\ writeErr = <<>>
  /\ config.t \in types
  /\ \E o \in ParseAll(config.t, ReaderOf(TextLines(output, 1), delimiter), fieldCache) :
       /\ reparsed' = [config |-> o.ps.config, result |-> o.returned]
       /\ fieldCache' = o.ps.fieldCache
  /\ pc' = "reparsed"
  /\ UNCHANGED <<config, frames, includedFiles, delimiter, result, reader, consumed,
                 twin, output, writeErr>>

(***************************************************************************)
(* The record types of the scenarios.  Config is the record most scenarios *)
(* parse into: a tagged field with a default, a slice with an implicit     *)
(* name and an optional nested record under an upper-case tag.  DefConfig  *)
(* holds optional nested records with a default directly inside (Srv),     *)
(* with none (Plain) and with one only deeper inside (Deep).               *)
(***************************************************************************)
s_port == <<"p","o","r","t">>

s_ints == <<"i","n","t","s">>

s_srv == <<"s","r","v">>

s_host == <<"h","o","s","t">>

s_plain == <<"p","l","a","i","n">>

s_deep == <<"d","e","e","p">>

s_log == <<"l","o","g">>

s_level == <<"l","e","v","e","l">>

ServerT == StructT("Server", <<F(Title(s_host), Title(s_host), <<>>, TString)>>)

DefServerT == StructT("DefServer", <<F(Title(s_host), s_host, <<"h">>, TString)>>)

LeafT == StructT("Leaf", <<F(Title(s_level), s_level, <<"i">>, TString)>>)

MidT == StructT("Mid", <<F(Title(s_log), s_log, <<>>, LeafT)>>)

ConfigT ==
  StructT("Config",
          << F(Title(s_port), s_port, <<"8","0">>, TUint8),
             F(Title(s_ints), <<>>, <<>>, SliceOf(TInt)),
             F(Title(s_srv), ToUpper(s_srv), <<>>, PtrTo(ServerT)) >>)

DefConfigT ==
  StructT("DefConfig",
          << F(Title(s_srv), s_srv, <<>>, PtrTo(DefServerT)),
             F(Title(s_plain), s_plain, <<>>, PtrTo(ServerT)),
             F(Title(s_deep), s_deep, <<>>, PtrTo(MidT)) >>)

\* The record the writer scenarios write: a key, an embedded record with a
\* key and a nested record, an optional nested record, a nested record with
\* a nested record, and a key declared after them.
EmbT ==
  StructT("Emb", << F(<<"K">>, <<"k">>, <<>>, TString),
                    F(Title(s_log), s_log, <<>>, LeafT) >>)

WriterT ==
  StructT("Writer",
          << F(<<"N","a","m","e">>, <<"n","a","m","e">>, <<>>, TString),
             Embedded(<<"E","m","b">>, <<>>, EmbT),
             F(Title(s_srv), ToUpper(s_srv), <<>>, PtrTo(ServerT)),
             F(Title(s_deep), s_deep, <<>>, MidT),
             F(<<"L","a","s","t">>, <<>>, <<>>, TUint8) >>)

\* A record with no default and no optional field.
RoundT ==
  StructT("Round",
          << F(<<"N","a","m","e">>, <<"n","a","m","e">>, <<>>, TString),
             F(<<"S","i","z","e">>, <<>>, <<>>, TInt8) >>)

\* A record with an optional primitive field.
OptT ==
  StructT("Opt",
          << F(<<"N","a","m","e">>, <<"n","a","m","e">>, <<>>, TString),
             F(<<"C","o","u","n","t">>, <<"c","o","u","n","t">>, <<>>, PtrTo(TInt8)) >>)

RECURSIVE NodeT(_)
\* type Node struct { V int8 `ini:"v" default:"1"`; Next *Node `ini:"next"` },
\* a record type that reaches itself through an optional field.  A type
\* descriptor is a finite value: Node is represented by its unrolling to k
\* levels, the innermost level without the field Next.
NodeT(k) ==
  StructT("Node",
          IF k = 0 THEN << F(<<"V">>, <<"v">>, <<"1">>, TInt8) >>
          ELSE << F(<<"V">>, <<"v">>, <<"1">>, TInt8),
                  F(<<"N","e","x","t">>, <<"n","e","x","t">>, <<>>, PtrTo(NodeT(k - 1))) >>)

\* A record with two default literals, the second of which does not convert.
BadDefT ==
  StructT("BadDef",
          << F(<<"A">>, <<"a">>, <<"1">>, TInt8),
             F(<<"B">>, <<"b">>, <<"x">>, TInt8) >>)

\* The index paths of Round's, Config's and DefConfig's fields in a config
\* value.
NameOf(c) == c.v[1][1]

CountOf(c) == c.v[1][2]

PortOf(c) == c.v[1][1]

IntsOf(c) == c.v[1][2]

SrvOf(c) == c.v[1][3]

DefSrvOf(c) == c.v[1][1]

DeepOf(c) == c.v[1][3]

(***************************************************************************)
(* The record types of the schema scenarios: every struct of up to         *)
(* MaxFields fields out of a pool that holds fields with the same explicit *)
(* tag, a field whose implicit key is another's tag, an embedded record    *)
(* (with and without a tag) that promotes a field with that tag, and an    *)
(* optional nested record.                                                 *)
(***************************************************************************)
BaseT == StructT("Base", <<F(<<"P">>, <<"k">>, <<>>, TString)>>)

FieldPool ==
  { F(<<"A">>, <<"k">>, <<>>, TString),
    F(<<"B">>, <<"k">>, <<>>, TString),
    F(<<"K">>, <<>>, <<>>, TString),
    F(<<"C">>, <<"K">>, <<>>, TString),
    Embedded(<<"B","a","s","e">>, <<>>, BaseT),
    Embedded(<<"B","a","s","e">>, <<"b">>, BaseT),
    F(Title(s_srv), s_srv, <<>>, PtrTo(ServerT)) }

\* Go rejects a struct that declares a field name twice.
GenFields ==
  UNION { {fs \in [1..n -> FieldPool] :
             \A i, j \in 1..n : i # j => fs[i].Name # fs[j].Name} :
          n \in 1..MaxFields }

GenTypes == {StructT("Gen", fs) : fs \in GenFields}

\* Two fields with the same tag before an optional nested record.
DupConfigT ==
  StructT("DupConfig",
          << F(<<"A">>, <<"k">>, <<>>, TString),
             F(<<"B">>, <<"k">>, <<>>, TString),
             F(Title(s_srv), s_srv, <<>>, PtrTo(ServerT)) >>)

(***************************************************************************)
(* The input lines of the scenarios.                                       *)
(***************************************************************************)
\* key = value
Assign(key, value) == key \o <<" ", "=", " ">> \o value

\* [section]
Header(section) == <<"[">> \o section \o <<"]">>

\* A continuation line: leading white space, then the text.
Continuation(text) == <<" ", " ">> \o text

\* !include name
Include(name) == s_include \o name

L_port5 == Assign(s_port, <<"5">>)

\* port = 300, out of the range of uint8
L_port300 == Assign(s_port, <<"3", "0", "0">>)

\* port = x, not a number
L_portX == Assign(s_port, <<"x">>)

L_ints1 == Assign(s_ints, <<"1">>)

L_host == Assign(s_host, <<"a">>)

L_cont2 == Continuation(<<"2">>)

L_contX == Continuation(<<"x">>)

L_srv == Header(s_srv)

L_malformed == <<"z","z","z">>

L_includeA == Include(<<"a">>)

L_includeMissing == Include(<<"m">>)

L_nameA == Assign(<<"n","a","m","e">>, <<"a">>)

\* [s-v]
L_badHeader == Header(<<"s", "-", "v">>)

\* [srv.]
L_dotHeader == Header(s_srv \o <<".">>)

\* po-rt = 5
L_badKey == Assign(<<"p", "o", "-", "r", "t">>, <<"5">>)

\* name = $B, the environment holding B=$A and A=7.
L_nameB == Assign(<<"n","a","m","e">>, <<"$", "B">>)

L_size3 == Assign(<<"s","i","z","e">>, <<"-", "3">>)

L_contB == Continuation(<<"b">>)

\* count = 2
L_count2 == Assign(<<"c","o","u","n","t">>, <<"2">>)

\* port : 7
L_portColon7 == s_port \o <<" ", ":", " ", "7">>

\* The file a by its absolute name.
L_includeAbsA == Include(<<"/", "a">>)

L_deepLog == Header(s_deep \o <<".">> \o s_log)

L_level == Assign(s_level, <<"z">>)

L_k == Assign(<<"k">>, <<"v">>)

\* Lines for Config: assignments at the root, a continuation that coerces
\* to an int and one that does not, a malformed line and a section header.
ValueLines == {L_port5, L_ints1, L_cont2, L_contX, L_malformed, L_srv}

\* Lines for Config: assignments at the root and in [srv], an include that
\* opens and one that does not.
IncludeLines == {L_port5, L_srv, L_host, L_includeA, L_includeMissing}

\* Lines for Config: an assignment, a continuation of it and an include.
PendingLines == {L_ints1, L_cont2, L_includeA}

\* Lines for Config: a value of the primitive field that converts, one out
\* of its range and one that does not parse.
CoerceLines == {L_port5, L_port300, L_portX}

\* Lines for Config: an assignment with each delimiter.
DelimLines == {L_port5, L_portColon7}

\* Lines for Config: includes of the file a by two names.
AliasLines == {L_includeA, L_includeAbsA}

DefLines == {L_srv, L_host, L_deepLog, L_level}

\* Lines for Round: assignments to its string and to its integer, and a
\* continuation.
RoundLines == {L_nameA, L_size3, L_contB}

\* b = 2
L_b2 == Assign(<<"b">>, <<"2">>)

\* Lines for BadDef: an assignment to the field whose default is invalid
\* and a malformed line.
BadDefLines == {L_b2, L_malformed}

\* v = 2
L_v2 == Assign(<<"v">>, <<"2">>)

\* Lines for Node: an assignment to its key and a malformed line.
NodeLines == {L_v2, L_malformed}

\* Lines for Opt: assignments to its string and to its optional integer.
OptLines == {L_nameA, L_count2}

\* Lines for Round: a value that names a variable of the environment, and a
\* continuation.
EnvLines == {L_nameB, L_contB}

\* Lines for Config: a header, a key of its section, a header and a key with
\* a character outside the grammar, a header with an empty path segment.
HeaderLines == {L_srv, L_host, L_badHeader, L_dotHeader, L_badKey}

\* Lines for Writer: the optional nested record and its key.
WriterLines == {L_srv, L_host}

SchemaLines == {L_srv, L_host, L_k}

Input(c, lines) == [config |-> c, lines |-> lines]

\* The types of arguments that are not a pointer to a struct: a struct, a
\* string, a pointer to an int.
InvalidArgs == {ConfigT, TString, PtrTo(TInt)}

Inputs ==
  {Input(PtrTo(ConfigT), ValueLines), Input(PtrTo(ConfigT), IncludeLines),
   Input(PtrTo(ConfigT), PendingLines), Input(PtrTo(ConfigT), AliasLines),
   Input(PtrTo(ConfigT), ChainLines), Input(PtrTo(ConfigT), DelimLines),
   Input(PtrTo(ConfigT), HeaderLines), Input(PtrTo(ConfigT), CoerceLines),
   Input(PtrTo(DefConfigT), DefLines), Input(PtrTo(DupConfigT), SchemaLines),
   Input(PtrTo(WriterT), WriterLines), Input(PtrTo(RoundT), RoundLines),
   Input(PtrTo(RoundT), EnvLines), Input(PtrTo(OptT), OptLines),
   Input(PtrTo(BadDefT), BadDefLines), Input(PtrTo(NodeT(MaxUnroll)), NodeLines)}
  \cup {Input(PtrTo(t), {L_k}) : t \in GenTypes}
  \cup {Input(t, ValueLines) : t \in InvalidArgs}

WriteArgs == InvalidArgs \cup {PtrTo(ConfigT), PtrTo(DefConfigT), PtrTo(WriterT)}

\* The types of the records that are parsed again from what Write wrote.
RoundTripArgs == {PtrTo(RoundT), PtrTo(OptT)}

Delimiters == {<<"=">>, <<":">>}

\* SetDelimiter(d), called by another goroutine while Parse reads an input
\* out of `during`.
SetDelimiter(delims, during) ==
  /\ pc = "parsing"
  /\ reader \in during
  /\ \E d \in delims \ {delimiter} : delimiter' = d
  /\ UNCHANGED <<pc, config, frames, includedFiles, fieldCache, result, reader,
                 consumed, twin, output, writeErr, reparsed>>

Next ==
  \/ Parse(Inputs)
  \/ ScanLine
  \/ EndOfInput
  \/ Write(WriteArgs)
  \/ SetDelimiter(Delimiters, {DelimLines})
  \/ Reparse(RoundTripArgs)

Spec == Init /\ [][Next]_vars

(***************************************************************************)
(* What the properties below speak of.                                     *)
(***************************************************************************)
\* The lines scanned so far, in order.
LinesOf(c) == [i \in DOMAIN c |-> c[i].line]

\* The parse in progress or returned is of a Config.
OfConfig == config.t = PtrTo(ConfigT)

OfDefConfig == config.t = PtrTo(DefConfigT)

\* The step scans `line`.
Scans(line) ==
  /\ pc = "parsing"
  /\ Len(consumed') = Len(consumed) + 1
  /\ consumed'[Len(consumed')].line = line

(***************************************************************************)
(* C1: Parse never stops at the first error: an assignment line that is    *)
(* well-formed and whose section, key and value resolve and coerce is      *)
(* applied to the record, whichever lines failed before it.  Here: each    *)
(* step that scans "port = 5" for a Config while the current section is    *)
(* the root leaves 5 in Port.                                              *)
(***************************************************************************)
C1_AssignmentApplied ==
  [][(Scans(L_port5) /\ OfConfig /\ Top(Now).currentSection = <<>>)
       => PortOf(config') = 5]_vars

(***************************************************************************)
(* C2: Parse returns exactly one entry for each failing line, in the order *)
(* the lines were consumed.  Here, for the malformed lines of an input     *)
(* without includes: when Parse has returned, each malformed line i has    *)
(* exactly one "invalid line format" entry with line i, and the entries    *)
(* are in the order of their lines.                                        *)
(***************************************************************************)
EntriesFor(kind, i) == {j \in DOMAIN result : result[j].kind = kind /\ result[j].line = i}

C2_OneEntryPerFailingLine ==
  (pc = "done" /\ OfConfig /\ reader = ValueLines)
    => /\ \A i \in DOMAIN consumed :
            consumed[i].line = L_malformed
              => Cardinality(EntriesFor("invalid line format", i)) = 1
       /\ \A j, k \in DOMAIN result : j < k => result[j].line <= result[k].line

(***************************************************************************)
(* C3: a default-annotated field whose key the input never assigns holds   *)
(* the coerced default when Parse returns.  Here for Config's Port         *)
(* (default 80), DefConfig's Srv.Host (default h) and DefConfig's          *)
(* Deep.Log.Level (default i).                                             *)
(***************************************************************************)
NeverScanned(line) == \A i \in DOMAIN consumed : consumed[i].line # line

C3_DefaultHeld ==
  pc = "done"
    => /\ (OfConfig /\ NeverScanned(L_port5)) => PortOf(config) = 80
       /\ (OfDefConfig /\ NeverScanned(L_host)) => DefSrvOf(config) = << << <<"h">> >> >>
       /\ (OfDefConfig /\ NeverScanned(L_level))
            => DeepOf(config) = << << << <<"i">> >> >> >>

(***************************************************************************)
(* C4: defaults are applied once per top-level Parse and not again when an *)
(* included file is parsed: the step that opens an included file leaves    *)
(* the record as it was.                                                   *)
(***************************************************************************)
C4_IncludeKeepsRecord ==
  [][(pc = "parsing" /\ Len(frames') > Len(frames)) => config' = config]_vars

(***************************************************************************)
(* C5: after parsing empty input, an optional nested record is present,    *)
(* with its defaults applied, if and only if a field transitively inside   *)
(* it carries a default.                                                   *)
(***************************************************************************)
RECURSIVE HasDefaultInside(_)
\* Whether a field transitively inside the struct type t carries a default.
HasDefaultInside(t) ==
  \E i \in 1..NumField(t) :
    \/ Field(t, i).default # <<>>
    \/ /\ Pointee(Field(t, i).Type).kind = "struct"
       /\ HasDefaultInside(Pointee(Field(t, i).Type))

RECURSIVE WithDefaults(_)
\* The value of a struct of type t that holds its defaults and nothing
\* else, for the string fields of the scenarios' records.
WithDefaults(t) ==
  [i \in 1..NumField(t) |->
     IF Field(t, i).Type.kind = "struct" THEN WithDefaults(Field(t, i).Type)
     ELSE IF Field(t, i).Type.kind = "ptr" /\ Elem(Field(t, i).Type).kind = "struct"
     THEN (IF HasDefaultInside(Elem(Field(t, i).Type))
           THEN <<WithDefaults(Elem(Field(t, i).Type))>> ELSE <<>>)
     ELSE Field(t, i).default]

C5_PresentIffDefaultInside ==
  (pc = "done" /\ OfDefConfig /\ consumed = <<>>)
    => \A i \in 1..NumField(DefConfigT) :
         /\ config.v[1][i] # <<>> <=> HasDefaultInside(Elem(Field(DefConfigT, i).Type))
         /\ config.v[1][i] # <<>>
              => config.v[1][i] = <<WithDefaults(Elem(Field(DefConfigT, i).Type))>>

(***************************************************************************)
(* C6: a record type in which two fields, declared or promoted from an     *)
(* embedded record, have the same effective key yields a schema error when *)
(* the type is first resolved, whichever of the two comes first: the       *)
(* duplicate-key error, or, when the type embeds a record that carries an  *)
(* explicit tag, the error for that tag.                                   *)
(***************************************************************************)
\* The explicit tag, else the name-case conversion of the declared name.
EffectiveKey(f) == IF f.ini # <<>> THEN f.ini ELSE snakeToPascal(f.Name)

\* Whether field f embeds a record by value.
IsEmbedded(f) == f.Anonymous /\ f.Type.kind = "struct"

RECURSIVE KeysFrom(_, _)
\* The effective keys of the fields of t from field i on, those promoted
\* from embedded records among them, in declaration order.
KeysFrom(t, i) ==
  IF i > NumField(t) THEN <<>>
  ELSE (IF IsEmbedded(Field(t, i)) THEN KeysFrom(Field(t, i).Type, 1)
        ELSE <<EffectiveKey(Field(t, i))>>)
       \o KeysFrom(t, i + 1)

HasDuplicateKey(t) ==
  \E i, j \in DOMAIN KeysFrom(t, 1) : i < j /\ KeysFrom(t, 1)[i] = KeysFrom(t, 1)[j]

RECURSIVE HasTaggedEmbedded(_)
HasTaggedEmbedded(t) ==
  \E i \in 1..NumField(t) :
    /\ IsEmbedded(Field(t, i))
    /\ Field(t, i).ini # <<>> \/ HasTaggedEmbedded(Field(t, i).Type)

\* Parse has resolved the config's type and scanned no line yet.
FirstResolved == pc = "parsing" /\ consumed = <<>>

C7_SchemaErrorFatal ==
  (pc \in {"parsing", "done"}
     /\ (HasDuplicateKey(Elem(config.t)) \/ HasTaggedEmbedded(Elem(config.t))))
    => /\ consumed = <<>>
       /\ config.v = <<Zero(Elem(config.t))>>
       /\ pc = "done" => Len(result) = 1 /\ result[1].kind \in {DuplicateTag, PromotedTag}

(***************************************************************************)
(* C8: Parse and Write, given a config argument that is not a pointer to a *)
(* struct, return the error "configuration must be a pointer to a struct"  *)
(* at once: they do not crash, read no line and write no output.           *)
(***************************************************************************)
C8_StructuralErrorReturned ==
  (pc # "idle" /\ ~IsPointerToStruct(config.t))
    => /\ pc # "panic"
       /\ consumed = <<>>
       /\ output = <<>>
       /\ pc = "done" => result = <<NotPointerToStruct>>
       /\ pc = "written" => writeErr = <<NotPointerToStruct>>

(***************************************************************************)
(* C9: a key line followed by n continuation lines and bound to a          *)
(* sequence field sets the field to the n+1 trimmed values, coerced, in    *)
(* input order.  Here: when Parse returns and its input ended with         *)
(* "ints = 1" at the root followed by n lines "  2", Ints is 1 followed by *)
(* n times 2.                                                              *)
(***************************************************************************)
\* The input ends with the key line at i followed by continuations only.
EndsWithInts(i) ==
  /\ consumed[i].line = L_ints1
  /\ \A j \in DOMAIN consumed : j > i => consumed[j].line = L_cont2
  /\ \A j \in DOMAIN consumed : consumed[j].line # L_srv

C9_KeyAndContinuations ==
  (pc = "done" /\ OfConfig /\ reader = ValueLines)
    => \A i \in DOMAIN consumed :
         EndsWithInts(i)
           => IntsOf(config) = <<1>> \o [j \in 1..(Len(consumed) - i) |-> 2]

(***************************************************************************)
(* C10: section-path segments and keys match case-insensitively: the parse *)
(* of an input and the parse of the same input with its section headers    *)
(* and keys in another letter case yield the same record and the same      *)
(* errors, line by line and in what Parse returns.                         *)
(***************************************************************************)
C10_CaseInsensitive ==
  pc \in {"parsing", "done"}
    => twin.config = config /\ twin.frames = frames /\ twin.result = result

\* "[srv]" and "host = a" are parsed into a Config whose fields are tagged
\* SRV and Host, the second input holding them in upper or title case.
C10_UpperCaseResolved ==
  /\ pc = "done"
  /\ OfConfig
  /\ LinesOf(consumed) = <<L_srv, L_host>>
  /\ SrvOf(config) = << << <<"a">> >> >>
  /\ twin.config = config
  /\ result = <<>>

(***************************************************************************)
(* C15: the field-map cache is an insert-if-absent map: once an entry for  *)
(* a record type is published, no call of Parse or Write removes, replaces *)
(* or modifies it.                                                         *)
(***************************************************************************)
C15_CacheEntriesKept ==
  [][\A t \in DOMAIN fieldCache :
       t \in DOMAIN fieldCache' /\ fieldCache'[t] = fieldCache[t]]_vars

(***************************************************************************)
(* C20: the non-continuation line that ends a run of continuation lines is *)
(* processed after the commit of the run, whether or not the commit        *)
(* succeeded: the run is closed, a section header changes the section and  *)
(* "port = 5" at the root of a Config leaves 5 in Port.                    *)
(***************************************************************************)
\* The step scans `line` in an activation that has a run pending.
EndsRun(line) == Scans(line) /\ Top(Now).inMultiline

\* The innermost activation after the step.
TopAfter == frames'[Len(frames')]

C11_LastAssignmentWins ==
  (/\ pc = "done"
   /\ OfConfig
   /\ reader = PendingLines
   /\ result = <<>>
   /\ consumed # <<>>
   /\ consumed[Len(consumed)].line = L_ints1)
    => IntsOf(config) = <<1>>

(***************************************************************************)
(* C12: a parse whose includes all opened returns the record and the       *)
(* errors (line numbers apart, which count from 1 in each file) of a parse *)
(* of the text in which every directive line is replaced by the lines read *)
(* from the file it names.                                                 *)
(***************************************************************************)
NotDirective(read) == ~HasPrefix(read.line, s_include)

\* The lines read in the order read, without the directive lines: the text
\* with every directive replaced by what was read from its file.
InlinedText == SelectSeq(consumed, NotDirective)

\* What Parse may leave for a reader that yields `lines` and a new record
\* of the type of config: [returned, ps].
ParseOf(lines) == ParseAll(config.t, lines, EmptyMap)

Unnumbered(errors) ==
  [i \in DOMAIN errors |-> [kind |-> errors[i].kind, detail |-> errors[i].detail,
                            of |-> errors[i].of]]

IncludeFailures ==
  {"failed to open file", "circular include detected", "maximum include depth exceeded"}

AllIncludesOpened == \A i \in DOMAIN result : result[i].kind \notin IncludeFailures

C12_IncludeIsInlining ==
  (/\ pc = "done"
   /\ OfConfig
   /\ reader = IncludeLines
   /\ AllIncludesOpened)
    => \E o \in ParseOf(InlinedText) :
         /\ o.ps.config = config
         /\ Unnumbered(o.returned) = Unnumbered(result)

(***************************************************************************)
(* C13: a file reached a second time within one top-level parse is not     *)
(* parsed again: the include yields a circular-include error and starts no *)
(* activation.  No file is then parsed twice, and the parse of a finite    *)
(* set of files ends.                                                      *)
(***************************************************************************)
\* The name the include line resolves to in the innermost activation.
Resolved(line) ==
  IF IsAbs(TrimSpace(Slice(line, Len(s_include) + 1, Len(line))))
  THEN TrimSpace(Slice(line, Len(s_include) + 1, Len(line)))
  ELSE Join(BasePath(Top(Now)), TrimSpace(Slice(line, Len(s_include) + 1, Len(line))))

\* The files this parse has opened.
Opened == {Abs(name) : name \in includedFiles} \cap Files

LastError(f) == f.errors[Len(f.errors)]

\* The step refuses the include with an error of this kind.
Refused(kind) ==
  /\ Len(frames') = Len(frames)
  /\ TopAfter.errors # <<>>
  /\ LastError(TopAfter).kind = kind

C13_FileParsedOnce ==
  [][\A line \in AliasLines :
       (Scans(line) /\ reader = AliasLines /\ Abs(Resolved(line)) \in Opened)
         => Refused("circular include detected")]_vars

(***************************************************************************)
(* C14: a file included from the top-level input being at nesting depth 1, *)
(* an include of a file not yet visited is parsed when the file comes at   *)
(* depth 10 or less, and at depth 11 it is not parsed and yields "maximum  *)
(* include depth exceeded".                                                *)
(***************************************************************************)
C14_DepthLimit ==
  [][(Scans(L_includeNext) /\ reader = ChainLines
        /\ Resolved(L_includeNext) \notin includedFiles)
       => IF Top(Now).depth + 1 <= MaxIncludeDepth
          THEN Len(frames') = Len(frames) + 1
          ELSE Refused("maximum include depth exceeded")]_vars

(***************************************************************************)
(* C16: a parse reads every line under one delimiter, a SetDelimiter call  *)
(* of another goroutine during the parse changing nothing: the parse       *)
(* returns the record and the errors of a parse that reads the same lines  *)
(* under the delimiter its first line was read under.                      *)
(***************************************************************************)
\* The lines read, each with the delimiter the first one was read under.
UnderFirstDelimiter == [i \in DOMAIN consumed |-> [consumed[i] EXCEPT !.delim = consumed[1].delim]]

C16_OneDelimiterPerParse ==
  (pc = "done" /\ OfConfig /\ reader = DelimLines)
    => \E o \in ParseOf(UnderFirstDelimiter) :
         /\ o.ps.config = config
         /\ o.returned = result

(***************************************************************************)
(* What the properties of Write speak of: the lines of the output by       *)
(* section, and the records of the written value by section.               *)
(***************************************************************************)
Uncommented(line) == IF HasPrefix(line, <<";", " ">>) THEN SubSeq(line, 3, Len(line)) ELSE line

IsHeaderLine(line) == HasPrefix(Uncommented(line), <<"[">>)

\* The section a header line names.
HeaderName(line) == SubSeq(Uncommented(line), 2, Len(Uncommented(line)) - 1)

\* The key of a key line: its text up to the first space.
KeyOf(line) == SubSeq(Uncommented(line), 1, Index(Uncommented(line), <<" ">>) - 1)

RECURSIVE LinesUnderFrom(_, _, _, _)
\* The key lines of out[i..] that lie under the header of `section`, the
\* header before line i being that of `current`.
LinesUnderFrom(out, section, i, current) ==
  IF i > Len(out) THEN <<>>
  ELSE IF IsHeaderLine(out[i]) THEN LinesUnderFrom(out, section, i + 1, HeaderName(out[i]))
  ELSE (IF out[i] # <<>> /\ current = section THEN <<out[i]>> ELSE <<>>)
       \o LinesUnderFrom(out, section, i + 1, current)

\* The key lines under the header of `section` (before any header, for the
\* root), in the order written.
LinesUnder(section) == LinesUnderFrom(output, section, 1, <<>>)

KeysUnder(section) == [i \in DOMAIN LinesUnder(section) |-> KeyOf(LinesUnder(section)[i])]

\* Whether field f holds a nested record, by value or optional.
IsNested(f) ==
  \/ f.Type.kind = "struct" /\ ~f.Anonymous
  \/ f.Type.kind = "ptr" /\ Elem(f.Type).kind = "struct"

RECURSIVE OwnKeysFrom(_, _)
\* The keys of the fields of record type t from field i on, in declaration
\* order, an embedded record's keys in its place.
OwnKeysFrom(t, i) ==
  IF i > NumField(t) THEN <<>>
  ELSE (IF IsEmbedded(Field(t, i)) THEN OwnKeysFrom(Field(t, i).Type, 1)
        ELSE IF IsNested(Field(t, i)) THEN <<>>
        ELSE <<writeTagName(Field(t, i))>>)
       \o OwnKeysFrom(t, i + 1)

OwnKeys(t) == OwnKeysFrom(t, 1)

RECURSIVE NestedRecords(_, _, _, _)
\* The records nested in the value v of record type t, at any depth, as
\* [section, t, absent]: absent are an optional record that is nil and the
\* records inside it.
NestedRecords(t, v, section, absent) ==
  UNION { IF IsEmbedded(Field(t, i)) THEN NestedRecords(Field(t, i).Type, v[i], section, absent)
          ELSE IF IsNested(Field(t, i))
          THEN {[section |-> buildSectionName(section, writeTagName(Field(t, i))),
                 t |-> Pointee(Field(t, i).Type),
                 absent |-> absent \/ v[i] = <<>>]}
               \cup NestedRecords(Pointee(Field(t, i).Type),
                                  IF v[i] = <<>> THEN Zero(Pointee(Field(t, i).Type))
                                  ELSE PointeeValue(Field(t, i).Type, v[i]),
                                  buildSectionName(section, writeTagName(Field(t, i))),
                                  absent \/ v[i] = <<>>)
          ELSE {} :
          i \in 1..NumField(t) }

\* The records of the written value: the root and the records nested in it.
Records ==
  {[section |-> <<>>, t |-> Elem(config.t), absent |-> FALSE]}
  \cup NestedRecords(Elem(config.t), config.v[1], <<>>, FALSE)

\* Write has written the whole record.
Written == pc = "written" /\ IsPointerToStruct(config.t) /\ writeErr = <<>>

CommentLines(t) ==
  [i \in DOMAIN OwnKeys(t) |-> <<";", " ">> \o OwnKeys(t)[i] \o <<" ">> \o delimiter]

CommentHeader(section) == <<";", " ", "[">> \o section \o <<"]">>

C18_AbsentRecordAsComments ==
  Written
    => \A r \in Records :
         r.absent
           => /\ \E i \in DOMAIN output : output[i] = CommentHeader(r.section)
              /\ \A i \in DOMAIN output :
                   (IsHeaderLine(output[i]) /\ HeaderName(output[i]) = r.section)
                     => output[i] = CommentHeader(r.section)
              /\ LinesUnder(r.section) = CommentLines(r.t)

\* Write has written a DefConfig whose Deep is absent: Deep and the Log
\* inside it are written as comments.
C18_AbsentDeepWritten ==
  /\ Written
  /\ OfDefConfig
  /\ DeepOf(config) = <<>>
  /\ DefSrvOf(config) # <<>>
  /\ LinesUnder(s_deep \o <<".">> \o s_log) = << <<";", " ">> \o s_level \o <<" ">> \o delimiter >>

(***************************************************************************)
(* C19: round trip.  For Round, a record type with no default-bearing and  *)
(* no optional field, and an input that parses without error, Write writes *)
(* the record without error, and the parse of the written text into a new  *)
(* record returns no error and leaves the field values of the first parse. *)
(***************************************************************************)
RECURSIVE IsPlain(_)
\* Record type t has no default-bearing and no optional field, at any depth.
IsPlain(t) ==
  \A i \in 1..NumField(t) :
    /\ Field(t, i).default = <<>>
    /\ Field(t, i).Type.kind # "ptr"
    /\ Field(t, i).Type.kind = "struct" => IsPlain(Field(t, i).Type)

\* A valid input was parsed into a Round.
ParsedPlain ==
  /\ reader = RoundLines
  /\ result = <<>>
  /\ config.t = PtrTo(RoundT)
  /\ IsPlain(RoundT)

C19_RoundTrip ==
  /\ (pc = "written" /\ ParsedPlain) => writeErr = <<>>
  /\ (pc = "reparsed" /\ ParsedPlain)
       => /\ reparsed.result = <<>>
          /\ reparsed.config = config

(***************************************************************************)
(* C21: a key line followed by continuation lines makes one assignment,    *)
(* of the whole joined value, and the field never receives the value of    *)
(* the key line alone: when the input is "ints = 1" followed by "  x", the *)
(* joined value does not coerce and Ints is left as it was, empty.         *)
(***************************************************************************)
C21_OneAssignmentOfJoinedValue ==
  (pc = "done" /\ OfConfig /\ LinesOf(consumed) = <<L_ints1, L_contX>>)
    => IntsOf(config) = <<>>

(***************************************************************************)
(* C22: continuation lines extend only the assignment line they follow:    *)
(* one that comes after a rejected line is not appended to the value of    *)
(* the key before it, and one that comes after a section header is not     *)
(* committed under that header.                                            *)
(***************************************************************************)
\* An entry of what Parse returned reports key `key` as unknown.
UnknownKeyReported(key) ==
  \E i \in DOMAIN result : result[i].kind = NoKey(key).kind /\ result[i].detail = <<key>>

C22_ContinuationExtendsItsOwnLine ==
  (pc = "done" /\ OfConfig)
    => /\ LinesOf(consumed) = <<L_ints1, L_malformed, L_cont2>> => IntsOf(config) = <<1>>
       /\ LinesOf(consumed) = <<L_ints1, L_srv, L_cont2>> => ~UnknownKeyReported(s_ints)

(***************************************************************************)
(* C23: environment substitution is applied once to each assigned value,   *)
(* after the continuation lines are joined.  B holding the text $A, the    *)
(* value read from "name = $B" is $A, alone and with the continuation "b"  *)
(* joined to it: the text that came out of B is not expanded again.        *)
(***************************************************************************)
C23_SubstitutedOnce ==
  (pc = "done" /\ config.t = PtrTo(RoundT) /\ reader = EnvLines)
    => /\ LinesOf(consumed) = <<L_nameB>> => NameOf(config) = <<"$", "A">>
       /\ LinesOf(consumed) = <<L_nameB, L_contB>> => NameOf(config) = <<"$", "A", "\n", "b">>

(***************************************************************************)
(* C24: an assignment that fails leaves every optional field that was      *)
(* absent still absent.  Here for Config's Srv and the lines of an input   *)
(* that holds no key of Server: a step that reads a line and reports an    *)
(* error leaves an absent Srv absent.                                      *)
(***************************************************************************)
\* The step reads a line in the innermost activation and reports an error.
ScanFails ==
  /\ pc = "parsing"
  /\ Len(consumed') = Len(consumed) + 1
  /\ Len(frames') = Len(frames)
  /\ Len(TopAfter.errors) > Len(Top(Now).errors)

C24_FailedAssignmentAllocatesNothing ==
  [][(ScanFails /\ OfConfig /\ reader = ValueLines /\ SrvOf(config) = <<>>)
       => SrvOf(config') = <<>>]_vars

(***************************************************************************)
(* C25: a section header is accepted only if every dot-separated segment   *)
(* of its path is non-empty and made of letters, digits and underscore,    *)
(* and a key only if it is such a segment; any other header or key is      *)
(* rejected with an error that carries the number of its line.             *)
(***************************************************************************)
\* A name of the grammar: non-empty, letters, digits and underscore only.
IsName(s) == s # <<>> /\ \A i \in DOMAIN s : IsLetter(s[i]) \/ IsDigit(s[i]) \/ s[i] = "_"

\* A section path of the grammar: names joined by dots.
IsPath(s) == \A i \in DOMAIN Split(s, ".") : IsName(Split(s, ".")[i])

\* The step rejects the line it reads with an error of this kind that
\* carries the line's number.
RejectedAt(kind) ==
  /\ Len(frames') = Len(frames)
  /\ Len(TopAfter.errors) = Len(Top(Now).errors) + 1
  /\ LastError(TopAfter).kind = kind
  /\ LastError(TopAfter).line = Top(Now).lineNumber + 1

\* The step accepts the header it reads.
HeaderAccepted(path) ==
  /\ TopAfter.errors = Top(Now).errors
  /\ TopAfter.currentSection = path

C25_NamesValidated ==
  [][/\ \A path \in {s_srv, <<"s", "-", "v">>, s_srv \o <<".">>} :
          (Scans(Header(path)) /\ reader = HeaderLines)
            => IF IsPath(path) THEN HeaderAccepted(path)
               ELSE RejectedAt("invalid section name")
     /\ (Scans(L_badKey) /\ reader = HeaderLines) => RejectedAt("invalid key name")]_vars

(***************************************************************************)
(* C30: a section header rejected as invalid leaves the current section    *)
(* unchanged: the parse returns the record, and apart from the entries for *)
(* the rejected headers the errors, of a parse of the same lines without   *)
(* the rejected headers.                                                   *)
(***************************************************************************)
NotBadHeader(read) == read.line # L_badHeader

NotOfBadHeader(e) == e.kind # "invalid section name"

HostOf(c) == SrvOf(c)[1][1]

C30_RejectedHeaderKeepsSection ==
  (pc = "done" /\ OfConfig /\ reader = HeaderLines)
    => \E o \in ParseOf(SelectSeq(consumed, NotBadHeader)) :
         /\ o.ps.config = config
         /\ Unnumbered(o.returned) = Unnumbered(SelectSeq(result, NotOfBadHeader))

\* host = a was read under [srv] after a rejected header.
C30_AssignedAfterRejectedHeader ==
  /\ pc = "done"
  /\ OfConfig
  /\ LinesOf(consumed) = <<L_srv, L_badHeader, L_host>>
  /\ Cardinality(EntriesFor("invalid section name", 2)) = 1
  /\ SrvOf(config) # <<>>
  /\ HostOf(config) = <<"a">>

(***************************************************************************)
(* C27: a coercion that fails for a primitive field, on text that does not *)
(* parse or on a number out of the field's range, yields the coercion      *)
(* error and leaves the field holding its previous value.                  *)
(***************************************************************************)
C27_FailedCoercionKeepsValue ==
  [][(ScanFails /\ OfConfig /\ reader = CoerceLines)
       => /\ LastError(TopAfter).kind = "invalid value for field type"
          /\ PortOf(config') = PortOf(config)]_vars

(***************************************************************************)
(* C28: parsing the text Write produces for a record whose optional        *)
(* primitive field is absent reports no error and leaves the field absent. *)
(***************************************************************************)
C28_AbsentOptionalRoundTrip ==
  (pc = "reparsed" /\ config.t = PtrTo(OptT) /\ result = <<>> /\ CountOf(config) = <<>>)
    => /\ reparsed.result = <<>>
       /\ CountOf(reparsed.config) = <<>>

(***************************************************************************)
(* C29: Parse is deterministic: every parse of the same lines into a fresh *)
(* record of the same type yields the record and the errors this parse has *)
(* yielded, also when one of several default literals of the type is       *)
(* invalid.                                                                *)
(***************************************************************************)
C29_ParseDeterministic ==
  (pc = "done" /\ config.t = PtrTo(BadDefT) /\ reader = BadDefLines)
    => \A o \in ParseOf(consumed) : o.ps.config = config /\ o.returned = result

(***************************************************************************)
(* C26: default application terminates also for a record type that reaches *)
(* itself through an optional field with a default-annotated field inside  *)
(* it.  On the unrolling of such a type a terminating default application  *)
(* stops after a number of levels that does not grow with the unrolling:   *)
(* it does not reach the innermost level.                                  *)
(***************************************************************************)
RECURSIVE NextDepth(_)
\* The number of records allocated below the Node v through Next.
NextDepth(v) == IF Len(v) < 2 \/ v[2] = <<>> THEN 0 ELSE 1 + NextDepth(v[2][1])

C26_DefaultsTerminate ==
  (pc \in {"parsing", "done"} /\ config.t = PtrTo(NodeT(MaxUnroll)))
    => NextDepth(config.v[1]) < MaxUnroll

====
